---- MODULE Spec2Model ----
(***************************************************************************)
(* Model of the omg model-diffing, rename-inference and migration-code     *)
(* generation engine (demetere/omg).                                       *)
(*                                                                         *)
(* Strings are TLA+ strings; the Go string functions the code uses are     *)
(* defined over them with Len, SubSeq and \o.  A Go map is a TLA+ function *)
(* and every `range` over a map is a nondeterministic choice of iteration  *)
(* order.                                                                  *)
(***************************************************************************)
EXTENDS Integers, Sequences, FiniteSets, TLC

VARIABLES
    oldState,     \* ModelState loaded from the service (generateMigration)
    newState,     \* ModelState built from model.fga
    changes,      \* result of DetectChanges
    enhanced,     \* result of DetectPotentialRenames
    pc,           \* position of the diff pipeline
    genChanges,   \* change list handed to GenerateMigrationFromChanges
    upCode,       \* up function of the written file: leading comments and blocks
    downCode,     \* down function of the written file
    genErr,       \* error returned by GenerateMigrationFromChanges
    dirExists,    \* the migrations directory exists
    gpc,          \* position of the generator
    argNameSim,   \* arguments of a determineRenameConfidence call
    argRelSim,
    resConfidence,  \* its result
    tpc,          \* position of that call
    parseDef,     \* relation definition handed to parseRelationDefinition
    parseRes,     \* its result: error and Userset
    dpc,          \* position of that call
    oldDsl,       \* text of the earlier model file
    newDsl,       \* text of the later model file
    oldModel,     \* result of ParseDSLToModel on each
    newModel,
    mpc,          \* position of the parse of the model files
    store,        \* tuples in the authorization service
    lastCall,     \* the last Tracker call and its outcome
    applied,      \* result of the last Tracker.GetApplied
    recorded,     \* history: versions recorded by a successful call and not removed since
    upDir,        \* base names of the files in the migrations directory
    upPc,         \* position of runUp
    upFiles,      \* runUp: migrationFiles after the filter and the sort
    upApplied,    \* runUp: keys of the map GetApplied returned
    upIdx,        \* runUp: index of the next file of the loop
    upErr,        \* error returned by runUp
    upRan,        \* history: the `go run <file> up` commands of this run and their outcome
    upLedger0,    \* history: versions in the ledger when this run started
    upRuns,       \* number of runs of `omg up` started
    upPrevClean,  \* history: the run before this one returned no error
    hCall,        \* the tuple helper called and its arguments
    hPc,          \* position of the helper
    hOld,         \* tuples the helper has read
    hNew,         \* tuples the helper has built from them
    hBatch,       \* index of the next batch to write or delete
    hErr,         \* error returned by the helper
    hStore0,      \* history: the store when the helper was called
    migrations,   \* the registry
    regSorted,    \* the slice GetAll returned, in the hands of its caller
    regShares,    \* that slice shares its array with the registry
    regOp,        \* the last call on the registry
    regSince,     \* history: the migrations registered since the last Reset
    regBefore,    \* history: the registry before the last call
    srtChanges,   \* the AddRelation changes handed to sortRelationChanges
    srtDeps,      \* the dependency graph it built
    srtSorted,    \* the list it returned
    srtPc,        \* position of sortRelationChanges
    svcModel,     \* the authorization model of the service
    mdlCall,      \* the model helper called and its arguments
    mdlPc,        \* position of the model helper
    mdlErr,       \* error returned by the model helper
    mdlCurrent,   \* currentModel, the model the helper parsed
    mdlRead,      \* history, the model of the service when the helper was called
    mdlWritten    \* history, the helper has written a model

diffVars == <<oldState, newState, changes, enhanced, pc>>
genVars == <<genChanges, upCode, downCode, genErr, dirExists, gpc>>
tierVars == <<argNameSim, argRelSim, resConfidence, tpc>>
parseVars == <<parseDef, parseRes, dpc, oldDsl, newDsl, oldModel, newModel, mpc>>
trackVars == <<store, lastCall, applied, recorded>>
upVars == <<upDir, upPc, upFiles, upApplied, upIdx, upErr, upRan, upLedger0, upRuns, upPrevClean>>
progVars == <<diffVars, genVars, tierVars, parseVars>>
hVars == <<hCall, hPc, hOld, hNew, hBatch, hErr, hStore0>>
rVars == <<migrations, regSorted, regShares, regOp, regSince, regBefore>>
sVars == <<srtChanges, srtDeps, srtSorted, srtPc>>
mdlVars == <<svcModel, mdlCall, mdlPc, mdlErr, mdlCurrent, mdlRead, mdlWritten>>
moreVars == <<upVars, hVars, rVars, sVars, mdlVars>>
restOfUp == <<hVars, rVars, sVars, mdlVars>>
restOfH == <<upVars, rVars, sVars, mdlVars>>
restOfR == <<upVars, hVars, sVars, mdlVars>>
restOfMdl == <<upVars, hVars, rVars, sVars>>
restOfS == <<upVars, hVars, rVars, mdlVars>>
vars == <<oldState, newState, changes, enhanced, pc,
          genChanges, upCode, downCode, genErr, dirExists, gpc,
          argNameSim, argRelSim, resConfidence, tpc,
          parseDef, parseRes, dpc, oldDsl, newDsl, oldModel, newModel, mpc,
          store, lastCall, applied, recorded,
          upDir, upPc, upFiles, upApplied, upIdx, upErr, upRan, upLedger0, upRuns, upPrevClean,
          hCall, hPc, hOld, hNew, hBatch, hErr, hStore0,
          migrations, regSorted, regShares, regOp, regSince, regBefore,
          srtChanges, srtDeps, srtSorted, srtPc,
          svcModel, mdlCall, mdlPc, mdlErr, mdlCurrent, mdlRead, mdlWritten>>

-----------------------------------------------------------------------------
(* Bounds of the model                                                     *)

MaxTypes == 2      \* types in a model
MaxRels == 2       \* relations in a model, over all its types
MaxChanges == 3    \* length of a change list handed to the generator
MaxOperands == 3   \* operands of a generated relation definition
MaxRuns == 2       \* runs of `omg up` in a behaviour
ScoreSteps == 20   \* similarity scores k/ScoreSteps given to determineRenameConfidence

-----------------------------------------------------------------------------
(* Go strings                                                              *)

Char(s, i) == SubSeq(s, i, i)

\* ASCII order of the characters names are made of
AsciiOrder == "#,-.0123456789:>ABCDEFGHIJKLMNOPQRSTUVWXYZ[]_abcdefghijklmnopqrstuvwxyz{}"

ByteOf(c) ==
    IF \E i \in 1..Len(AsciiOrder) : Char(AsciiOrder, i) = c
    THEN CHOOSE i \in 1..Len(AsciiOrder) : Char(AsciiOrder, i) = c
    ELSE 0

\* s > t for Go strings: bytewise lexicographic
StrGreater(s, t) ==
    \E i \in 1..Len(s) :
        /\ \A k \in 1..(i - 1) : k <= Len(t) /\ Char(s, k) = Char(t, k)
        /\ (i > Len(t) \/ ByteOf(Char(s, i)) > ByteOf(Char(t, i)))

HasPrefixAt(s, sub, i) ==
    /\ i + Len(sub) - 1 <= Len(s)
    /\ SubSeq(s, i, i + Len(sub) - 1) = sub

\* strings.Index, 1-based; 0 when sub does not occur
Index(s, sub) ==
    IF \E i \in 1..(Len(s) + 1) : HasPrefixAt(s, sub, i)
    THEN CHOOSE i \in 1..(Len(s) + 1) :
            /\ HasPrefixAt(s, sub, i)
            /\ \A k \in 1..(i - 1) : ~HasPrefixAt(s, sub, k)
    ELSE 0

Contains(s, sub) == Index(s, sub) # 0

HasPrefix(s, p) == HasPrefixAt(s, p, 1)

HasSuffix(s, p) == Len(p) <= Len(s) /\ SubSeq(s, Len(s) - Len(p) + 1, Len(s)) = p

\* strings.Split for a non-empty separator
RECURSIVE Split(_, _)
Split(s, sep) ==
    LET i == Index(s, sep) IN
    IF i = 0 THEN <<s>>
    ELSE <<SubSeq(s, 1, i - 1)>> \o Split(SubSeq(s, i + Len(sep), Len(s)), sep)

\* strings.ReplaceAll for a non-empty old
RECURSIVE ReplaceAll(_, _, _)
ReplaceAll(s, old, new) ==
    LET i == Index(s, old) IN
    IF i = 0 THEN s
    ELSE SubSeq(s, 1, i - 1) \o new \o ReplaceAll(SubSeq(s, i + Len(old), Len(s)), old, new)

RECURSIVE TrimLeft(_)
TrimLeft(s) == IF Len(s) > 0 /\ Char(s, 1) = " " THEN TrimLeft(SubSeq(s, 2, Len(s))) ELSE s

RECURSIVE TrimRight(_)
TrimRight(s) ==
    IF Len(s) > 0 /\ Char(s, Len(s)) = " " THEN TrimRight(SubSeq(s, 1, Len(s) - 1)) ELSE s

TrimSpace(s) == TrimRight(TrimLeft(s))

UpperLetters == "ABCDEFGHIJKLMNOPQRSTUVWXYZ"
LowerLetters == "abcdefghijklmnopqrstuvwxyz"

ToLowerChar(c) ==
    IF \E i \in 1..Len(UpperLetters) : Char(UpperLetters, i) = c
    THEN Char(LowerLetters, CHOOSE i \in 1..Len(UpperLetters) : Char(UpperLetters, i) = c)
    ELSE c

RECURSIVE ToLower(_)
ToLower(s) ==
    IF Len(s) = 0 THEN "" ELSE ToLowerChar(Char(s, 1)) \o ToLower(SubSeq(s, 2, Len(s)))

Digits == "0123456789"

\* %d of a natural number
RECURSIVE Itoa(_)
Itoa(n) ==
    IF n < 10 THEN Char(Digits, n + 1)
    ELSE Itoa(n \div 10) \o Char(Digits, (n % 10) + 1)

\* all orders in which a `range` can visit the keys S of a map
RECURSIVE Perms(_)
Perms(S) ==
    IF S = {} THEN {<<>>}
    ELSE UNION {{<<x>> \o p : p \in Perms(S \ {x})} : x \in S}

Range(f) == {f[i] : i \in DOMAIN f}

\* the elements of seq that satisfy Keep, in order
SelectIdx(seq, Keep(_)) ==
    LET F[i \in 0..Len(seq)] ==
            IF i = 0 THEN <<>>
            ELSE IF Keep(i) THEN Append(F[i - 1], seq[i]) ELSE F[i - 1]
    IN F[Len(seq)]

-----------------------------------------------------------------------------
(* Model state (model_tracker.go)                                          *)

ChangeTypeAddType == "add_type"
ChangeTypeRemoveType == "remove_type"
ChangeTypeRenameType == "rename_type"
ChangeTypeAddRelation == "add_relation"
ChangeTypeRemoveRelation == "remove_relation"
ChangeTypeRenameRelation == "rename_relation"
ChangeTypeUpdateRelation == "update_relation"

ConfidenceHigh == "high"
ConfidenceMedium == "medium"
ConfidenceLow == "low"
ConfidenceNone == ""

\* a ModelChange literal; unset fields are Go zero values
ModelChange(type, typeName, relationName, oldValue, newValue, details, confidence) ==
    [Type |-> type, TypeName |-> typeName, RelationName |-> relationName,
     OldValue |-> oldValue, NewValue |-> newValue, Details |-> details,
     Confidence |-> confidence]

\* openfgaSdk.Userset values, one record shape per populated field
This == [k |-> "this"]
Computed(r) == [k |-> "computedUserset", relation |-> r]
TupleToUserset(ts, cu) == [k |-> "tupleToUserset", tupleset |-> ts, computedUserset |-> cu]
Union(children) == [k |-> "union", child |-> children]
Intersection(children) == [k |-> "intersection", child |-> children]
Difference(b, s) == [k |-> "difference", base |-> b, subtract |-> s]

ObjectRelationJSON(r) == "{\"relation\":\"" \o r \o "\"}"

\* json.Marshal of a Userset
RECURSIVE serializeUserset(_)
serializeUserset(u) ==
    LET Children(cs) ==
            LET F[i \in 0..Len(cs)] ==
                    IF i = 0 THEN ""
                    ELSE F[i - 1] \o (IF i > 1 THEN "," ELSE "") \o serializeUserset(cs[i])
            IN "{\"child\":[" \o F[Len(cs)] \o "]}"
    IN
    CASE u.k = "this" -> "{\"this\":{}}"
      [] u.k = "computedUserset" ->
            "{\"computedUserset\":" \o ObjectRelationJSON(u.relation) \o "}"
      [] u.k = "tupleToUserset" ->
            "{\"tupleToUserset\":{\"tupleset\":" \o ObjectRelationJSON(u.tupleset)
                \o ",\"computedUserset\":" \o ObjectRelationJSON(u.computedUserset) \o "}}"
      [] u.k = "union" -> "{\"union\":" \o Children(u.child) \o "}"
      [] u.k = "intersection" -> "{\"intersection\":" \o Children(u.child) \o "}"
      [] u.k = "difference" ->
            "{\"difference\":{\"base\":" \o serializeUserset(u.base)
                \o ",\"subtract\":" \o serializeUserset(u.subtract) \o "}}"

\* An authorization model is a function type name -> (relation name -> Userset).
BuildModelState(model) ==
    [Types |-> [t \in DOMAIN model |->
        [Name |-> t,
         Relations |-> [r \in DOMAIN model[t] |-> serializeUserset(model[t][r])]]]]

BuildModelStateFromAuthorizationModel(model) ==
    [Types |-> [t \in DOMAIN model |->
        [Name |-> t,
         Relations |-> [r \in DOMAIN model[t] |-> serializeUserset(model[t][r])]]]]

-----------------------------------------------------------------------------
(* DetectChanges                                                           *)

AddTypeChange(newState_, typeName) ==
    ModelChange(ChangeTypeAddType, typeName, "", "", "",
        "New type '" \o typeName \o "' with "
            \o Itoa(Cardinality(DOMAIN newState_.Types[typeName].Relations)) \o " relations",
        ConfidenceNone)

RemoveTypeChange(typeName) ==
    ModelChange(ChangeTypeRemoveType, typeName, "", "", "",
        "Type '" \o typeName \o "' removed", ConfidenceNone)

AddRelationChange(typeName, relName, relDef) ==
    ModelChange(ChangeTypeAddRelation, typeName, relName, "", relDef,
        "Added relation '" \o typeName \o "." \o relName \o "'", ConfidenceNone)

RemoveRelationChange(typeName, relName, relDef) ==
    ModelChange(ChangeTypeRemoveRelation, typeName, relName, relDef, "",
        "Removed relation '" \o typeName \o "." \o relName \o "'", ConfidenceNone)

UpdateRelationChange(typeName, relName, oldRelDef, newRelDef) ==
    ModelChange(ChangeTypeUpdateRelation, typeName, relName, oldRelDef, newRelDef,
        "Updated relation '" \o typeName \o "." \o relName \o "' definition", ConfidenceNone)

\* seq with f applied to every element
MapSeq(seq, f(_)) == [i \in 1..Len(seq) |-> f(seq[i])]

\* every concatenation b1 \o b2 \o ... for an order x1, x2, ... of S and
\* one choice bi out of blocks[xi] for each xi
RECURSIVE ConcatOver(_, _)
ConcatOver(S, blocks) ==
    IF S = {} THEN {<<>>}
    ELSE UNION {{b \o rest : b \in blocks[x], rest \in ConcatOver(S \ {x}, blocks)} : x \in S}

\* mutant: the "modified relations" loop without its oldRelDef != newRelDef test
RelationChangesOfType_NoCompare(oldState_, newState_, typeName) ==
    LET oldRels == oldState_.Types[typeName].Relations
        newRels == newState_.Types[typeName].Relations
        addedRels == {r \in DOMAIN newRels : r \notin DOMAIN oldRels}
        removedRels == {r \in DOMAIN oldRels : r \notin DOMAIN newRels}
        modifiedRels == {r \in DOMAIN newRels : r \in DOMAIN oldRels}
        Added(r) == AddRelationChange(typeName, r, newRels[r])
        Removed(r) == RemoveRelationChange(typeName, r, oldRels[r])
        Modified(r) == UpdateRelationChange(typeName, r, oldRels[r], newRels[r])
    IN {MapSeq(a, Added) \o MapSeq(d, Removed) \o MapSeq(m, Modified) :
            a \in Perms(addedRels), d \in Perms(removedRels), m \in Perms(modifiedRels)}

\* the changes one iteration of the "modified types" loop can append
RelationChangesOfType(oldState_, newState_, typeName) ==
    LET oldRels == oldState_.Types[typeName].Relations
        newRels == newState_.Types[typeName].Relations
        addedRels == {r \in DOMAIN newRels : r \notin DOMAIN oldRels}
        removedRels == {r \in DOMAIN oldRels : r \notin DOMAIN newRels}
        modifiedRels == {r \in DOMAIN newRels : r \in DOMAIN oldRels /\ oldRels[r] # newRels[r]}
        Added(r) == AddRelationChange(typeName, r, newRels[r])
        Removed(r) == RemoveRelationChange(typeName, r, oldRels[r])
        Modified(r) == UpdateRelationChange(typeName, r, oldRels[r], newRels[r])
    IN {MapSeq(a, Added) \o MapSeq(d, Removed) \o MapSeq(m, Modified) :
            a \in Perms(addedRels), d \in Perms(removedRels), m \in Perms(modifiedRels)}

\* every list DetectChanges(oldState, newState) can return
DetectChanges(oldState_, newState_) ==
    LET oldTypes == oldState_.Types
        newTypes == newState_.Types
        addedTypes == {t \in DOMAIN newTypes : t \notin DOMAIN oldTypes}
        removedTypes == {t \in DOMAIN oldTypes : t \notin DOMAIN newTypes}
        commonTypes == {t \in DOMAIN newTypes : t \in DOMAIN oldTypes}
        Added(t) == AddTypeChange(newState_, t)
        blocks == [t \in commonTypes |-> RelationChangesOfType(oldState_, newState_, t)]
    IN {MapSeq(a, Added) \o MapSeq(d, RemoveTypeChange) \o rels :
            a \in Perms(addedTypes), d \in Perms(removedTypes),
            rels \in ConcatOver(commonTypes, blocks)}

-----------------------------------------------------------------------------
(* Similarity scores                                                       *)

Min3(a, b, c) == IF a < b THEN (IF a < c THEN a ELSE c) ELSE (IF b < c THEN b ELSE c)

\* one row of the edit-distance matrix; column c is kept at index c + 1
RECURSIVE LevRow(_, _, _, _, _)
LevRow(s1, s2, i, prev, cur) ==
    IF Len(cur) = Len(s2) + 1 THEN cur
    ELSE LET j == Len(cur)
             cost == IF Char(s1, i) # Char(s2, j) THEN 1 ELSE 0
         IN LevRow(s1, s2, i, prev,
                   Append(cur, Min3(prev[j + 1] + 1, cur[j] + 1, prev[j] + cost)))

RECURSIVE LevRows(_, _, _, _)
LevRows(s1, s2, i, prev) ==
    IF i > Len(s1) THEN prev[Len(s2) + 1]
    ELSE LevRows(s1, s2, i + 1, LevRow(s1, s2, i, prev, <<i>>))

levenshteinDistance(s1, s2) ==
    IF Len(s1) = 0 THEN Len(s2)
    ELSE IF Len(s2) = 0 THEN Len(s1)
    ELSE LevRows(s1, s2, 1, [c \in 1..(Len(s2) + 1) |-> c - 1])

(* A float64 score is kept as the exact fraction num/den plus the sign of its
   rounding error: skew is the sign of (the float64 the code computes) minus
   (the float64 nearest to num/den).  Quotients and literals are correctly
   rounded (skew 0); 1.0 - distance/maxLen is not always. *)
Score(num, den, skew) == [num |-> num, den |-> den, skew |-> skew]

Zero == Score(0, 1, 0)

\* sign of (1.0 - float64(d)/float64(m)) - float64(m-d)/float64(m), for m <= 12
OneMinusSkew(d, m) ==
    IF <<m, d>> \in {<<3, 1>>, <<3, 2>>, <<6, 2>>, <<6, 4>>, <<7, 1>>, <<7, 4>>, <<7, 6>>,
                     <<9, 3>>, <<9, 6>>, <<9, 8>>, <<10, 7>>, <<11, 6>>, <<11, 10>>,
                     <<12, 4>>, <<12, 8>>, <<12, 11>>} THEN 1
    ELSE IF <<m, d>> \in {<<5, 4>>, <<6, 5>>, <<10, 8>>, <<10, 9>>, <<11, 2>>, <<11, 9>>,
                          <<12, 5>>, <<12, 7>>, <<12, 10>>} THEN -1
    ELSE 0

\* a >= num/den where num/den is a float64 literal
ScoreGE(a, num, den) ==
    \/ a.num * den > num * a.den
    \/ a.num * den = num * a.den /\ a.skew >= 0

\* a > b
ScoreGT(a, b) ==
    \/ a.num * b.den > b.num * a.den
    \/ a.num * b.den = b.num * a.den /\ a.skew > b.skew

\* %.0f of score * 100
FormatPercent(a) ==
    LET q == (100 * a.num) \div a.den
        r == (100 * a.num) % a.den
    IN Itoa(IF 2 * r < a.den THEN q
            ELSE IF 2 * r > a.den THEN q + 1
            ELSE IF q % 2 = 0 THEN q ELSE q + 1)

calculateSimilarity(name1, name2) ==
    LET n1 == ToLower(name1)
        n2 == ToLower(name2)
        shorter == IF Len(n2) < Len(n1) THEN Len(n2) ELSE Len(n1)
        longer == IF Len(n2) > Len(n1) THEN Len(n2) ELSE Len(n1)
        distance == levenshteinDistance(n1, n2)
    IN IF n1 = n2 THEN Score(1, 1, 0)
       ELSE IF Contains(n1, n2) \/ Contains(n2, n1) THEN Score(shorter, longer, 0)
       ELSE Score(longer - distance, longer, OneMinusSkew(distance, longer))

\* mutant: the High rule with "or" in place of "and"
determineRenameConfidence_Or(nameSimilarity, relationSimilarity) ==
    IF ScoreGE(nameSimilarity, 7, 10)
          \/ (ScoreGE(nameSimilarity, 4, 10) \/ ScoreGE(relationSimilarity, 7, 10))
    THEN ConfidenceHigh
    ELSE IF ScoreGE(nameSimilarity, 3, 10) \/ ScoreGE(relationSimilarity, 7, 10)
    THEN ConfidenceMedium
    ELSE IF ScoreGE(nameSimilarity, 2, 10) \/ ScoreGE(relationSimilarity, 5, 10)
    THEN ConfidenceLow
    ELSE ConfidenceNone

\* the High rule with the 0.4 bound on the name score turned round
determineRenameConfidence_Below(nameSimilarity, relationSimilarity) ==
    IF ScoreGE(nameSimilarity, 7, 10)
          \/ (~ScoreGE(nameSimilarity, 4, 10) /\ ScoreGE(relationSimilarity, 7, 10))
    THEN ConfidenceHigh
    ELSE IF ScoreGE(nameSimilarity, 3, 10) \/ ScoreGE(relationSimilarity, 7, 10)
    THEN ConfidenceMedium
    ELSE IF ScoreGE(nameSimilarity, 2, 10) \/ ScoreGE(relationSimilarity, 5, 10)
    THEN ConfidenceLow
    ELSE ConfidenceNone

determineRenameConfidence(nameSimilarity, relationSimilarity) ==
    IF ScoreGE(nameSimilarity, 7, 10)
          \/ (ScoreGE(nameSimilarity, 4, 10) /\ ScoreGE(relationSimilarity, 7, 10))
    THEN ConfidenceHigh
    ELSE IF ScoreGE(nameSimilarity, 3, 10) \/ ScoreGE(relationSimilarity, 7, 10)
    THEN ConfidenceMedium
    ELSE IF ScoreGE(nameSimilarity, 2, 10) \/ ScoreGE(relationSimilarity, 5, 10)
    THEN ConfidenceLow
    ELSE ConfidenceNone

haveSimilarRelations(removedTypeState, addedTypeState) ==
    LET oldRels == DOMAIN removedTypeState.Relations
        newRels == DOMAIN addedTypeState.Relations
        matchingRelations == Cardinality(oldRels \cap newRels)
        totalRelations == Cardinality(oldRels) + Cardinality(newRels) - matchingRelations
    IN IF oldRels = {} /\ newRels = {} THEN Zero
       ELSE IF oldRels = {} \/ newRels = {} THEN Zero
       ELSE IF totalRelations = 0 THEN Zero
       ELSE Score(matchingRelations, totalRelations, 0)

-----------------------------------------------------------------------------
(* DetectPotentialRenames                                                  *)

\* bestMatch is an index into the additions; 0 stands for -1
NoMatch == [match |-> 0, conf |-> ConfidenceNone, nameSim |-> Zero, relSim |-> Zero]

\* the "track the best match" condition; confidences are compared as Go strings
IsBetterMatch(confidence, sim, best) ==
    /\ confidence # ConfidenceNone
    /\ \/ best.match = 0
       \/ StrGreater(confidence, best.conf)
       \/ confidence = best.conf /\ ScoreGT(sim, best.nameSim)

\* inner loop of the type-level pass for one removed type (both states non-nil)
BestTypeMatch(removed, addedTypes, usedAdditions, oldState_, newState_) ==
    LET Scan[j \in 0..Len(addedTypes)] ==
            IF j = 0 THEN NoMatch
            ELSE LET best == Scan[j - 1]
                     added == addedTypes[j]
                     nameSim == calculateSimilarity(removed.TypeName, added.TypeName)
                     relSim ==
                        IF removed.TypeName \in DOMAIN oldState_.Types
                              /\ added.TypeName \in DOMAIN newState_.Types
                        THEN haveSimilarRelations(oldState_.Types[removed.TypeName],
                                                  newState_.Types[added.TypeName])
                        ELSE Zero
                     confidence == determineRenameConfidence(nameSim, relSim)
                 IN IF j \in usedAdditions THEN best
                    ELSE IF IsBetterMatch(confidence, nameSim, best)
                    THEN [match |-> j, conf |-> confidence, nameSim |-> nameSim,
                          relSim |-> relSim]
                    ELSE best
    IN Scan[Len(addedTypes)]

RenameTypeChange(removed, added, best) ==
    LET names == "'" \o removed.TypeName \o "' -> '" \o added.TypeName \o "'"
        detailsMsg ==
            CASE best.conf = ConfidenceHigh ->
                    "Rename detected: " \o names \o " (high confidence: "
                        \o FormatPercent(best.nameSim) \o "% name, "
                        \o FormatPercent(best.relSim) \o "% relations)"
              [] best.conf = ConfidenceMedium ->
                    "Possible rename: " \o names \o " (medium confidence - review required)"
              [] best.conf = ConfidenceLow ->
                    "Potential rename: " \o names \o " (low confidence - verify before using)"
              [] OTHER -> "Rename detected: " \o names
    IN ModelChange(ChangeTypeRenameType, removed.TypeName, "", removed.TypeName,
                   added.TypeName, detailsMsg, best.conf)

\* inner loop of the relation-level pass for one removed relation
BestRelationMatch(removed, added_, usedAdditions) ==
    LET Scan[j \in 0..Len(added_)] ==
            IF j = 0 THEN NoMatch
            ELSE LET best == Scan[j - 1]
                     sim == calculateSimilarity(removed.RelationName, added_[j].RelationName)
                     confidence == determineRenameConfidence(sim, Zero)
                 IN IF j \in usedAdditions THEN best
                    ELSE IF IsBetterMatch(confidence, sim, best)
                    THEN [match |-> j, conf |-> confidence, nameSim |-> sim, relSim |-> Zero]
                    ELSE best
    IN Scan[Len(added_)]

RenameRelationChange(typeName, removed, added, best) ==
    LET names == "'" \o typeName \o "." \o removed.RelationName \o "' -> '"
                     \o typeName \o "." \o added.RelationName \o "'"
        detailsMsg ==
            CASE best.conf = ConfidenceHigh ->
                    "Rename detected: " \o names \o " (high confidence: "
                        \o FormatPercent(best.nameSim) \o "%)"
              [] best.conf = ConfidenceMedium ->
                    "Possible rename: " \o names \o " (medium confidence - review required)"
              [] best.conf = ConfidenceLow ->
                    "Potential rename: " \o names \o " (low confidence - verify before using)"
              [] OTHER -> ""
    IN ModelChange(ChangeTypeRenameRelation, typeName, removed.RelationName,
                   removed.RelationName, added.RelationName, detailsMsg, best.conf)

\* The loop over the removals with its two "remaining changes" loops.
\* Best(removed, used) is the inner loop, Rename(removed, added, best) the change.
MatchRemovals(removals, additions, Best(_, _), Rename(_, _, _)) ==
    LET Step[i \in 0..Len(removals)] ==
            IF i = 0 THEN [renames |-> <<>>, usedRemovals |-> {}, usedAdditions |-> {}]
            ELSE LET st == Step[i - 1]
                     best == Best(removals[i], st.usedAdditions)
                 IN IF best.match # 0
                    THEN [renames |-> Append(st.renames,
                                        Rename(removals[i], additions[best.match], best)),
                          usedRemovals |-> st.usedRemovals \cup {i},
                          usedAdditions |-> st.usedAdditions \cup {best.match}]
                    ELSE st
        fin == Step[Len(removals)]
    IN fin.renames
        \o SelectIdx(removals, LAMBDA i : i \notin fin.usedRemovals)
        \o SelectIdx(additions, LAMBDA i : i \notin fin.usedAdditions)

OfType(changes_, type) == SelectSeq(changes_, LAMBDA c : c.Type = type)

\* mutant: relationsByType filled from the added relations only
RelationGroupKeys_AddedOnly(changes_) ==
    {c.TypeName : c \in {x \in Range(changes_) : x.Type = ChangeTypeAddRelation}}

\* keys of relationsByType
RelationGroupKeys(changes_) ==
    {c.TypeName : c \in {x \in Range(changes_) :
        x.Type \in {ChangeTypeAddRelation, ChangeTypeRemoveRelation}}}

\* groupOrder is the order in which `range relationsByType` visits its keys
DetectPotentialRenames(changes_, oldState_, newState_, groupOrder) ==
    LET addedTypes == OfType(changes_, ChangeTypeAddType)
        removedTypes == OfType(changes_, ChangeTypeRemoveType)
        addedRelations == OfType(changes_, ChangeTypeAddRelation)
        removedRelations == OfType(changes_, ChangeTypeRemoveRelation)
        others == SelectSeq(changes_, LAMBDA c :
                    c.Type \notin {ChangeTypeAddType, ChangeTypeRemoveType,
                                   ChangeTypeAddRelation, ChangeTypeRemoveRelation})
        typePass ==
            MatchRemovals(removedTypes, addedTypes,
                LAMBDA removed, used :
                    BestTypeMatch(removed, addedTypes, used, oldState_, newState_),
                RenameTypeChange)
        Group(typeName) ==
            LET added_ == SelectSeq(addedRelations, LAMBDA c : c.TypeName = typeName)
                removed_ == SelectSeq(removedRelations, LAMBDA c : c.TypeName = typeName)
            IN MatchRemovals(removed_, added_,
                    LAMBDA removed, used : BestRelationMatch(removed, added_, used),
                    LAMBDA removed, added, best :
                        RenameRelationChange(typeName, removed, added, best))
        RelPass[g \in 0..Len(groupOrder)] ==
            IF g = 0 THEN <<>> ELSE RelPass[g - 1] \o Group(groupOrder[g])
    IN others \o typePass \o RelPass[Len(groupOrder)]

-----------------------------------------------------------------------------
(* Generated code (pkg/migration_generator.go)                             *)
(*                                                                         *)
(* The body of a generated function is a list of blocks, one per string a  *)
(* generator returns; a block is the list of its lines that are a comment, *)
(* a statement (a call on the omg package or fmt.Printf) or a statement    *)
(* that is commented out.  Empty comment lines, error wrapping and the     *)
(* warning sign that leads some comment lines are left out.                *)

Comment(text) == [k |-> "comment", op |-> "", args |-> <<>>, text |-> text]
Call(op, args) == [k |-> "call", op |-> op, args |-> args, text |-> ""]
CommentedCall(op, args) == [k |-> "commented", op |-> op, args |-> args, text |-> ""]

generateAddType(change) ==
    << Comment("Add type: " \o change.TypeName),
       Comment("TODO: Define relations for this type"),
       Call("omg.AddTypeToModel", <<change.TypeName>>),
       Comment("Add your relations here"),
       Comment("\"owner\": \"[user]\",") >>

extractRelationDefinition(serialized) ==
    IF serialized = "" THEN "[user]"
    ELSE ReplaceAll(serialized, "\"", "\\\"")

generateAddRelation(change) ==
    LET def == extractRelationDefinition(change.NewValue) IN
    << Comment("Add relation: " \o change.TypeName \o "." \o change.RelationName),
       Call("omg.AddRelationToType", <<change.TypeName, change.RelationName, def>>) >>

generateUpdateRelation(change) ==
    LET def == extractRelationDefinition(change.NewValue) IN
    << Comment("Update relation: " \o change.TypeName \o "." \o change.RelationName),
       Call("omg.UpdateRelationDefinition", <<change.TypeName, change.RelationName, def>>) >>

\* "type.old -> type.new" of a relation rename
RelationArrow(change) ==
    change.TypeName \o "." \o change.OldValue \o " -> " \o change.TypeName \o "." \o change.NewValue

generateRenameRelation(change) ==
    LET rename == <<change.TypeName, change.OldValue, change.NewValue>> IN
    CASE change.Confidence = ConfidenceHigh ->
            << Comment("Rename relation: " \o RelationArrow(change) \o " (high confidence)"),
               Comment("This will copy all tuples from the old relation to the new one"),
               Call("omg.RenameRelation", rename) >>
      [] change.Confidence = ConfidenceMedium ->
            << Comment("REVIEW REQUIRED: Possible relation rename"),
               Comment("Detected: " \o RelationArrow(change)),
               Comment("This appears to be a rename. Review and confirm before applying."),
               Comment("If correct, this will preserve all existing tuples."),
               Call("omg.RenameRelation", rename) >>
      [] change.Confidence = ConfidenceLow ->
            << Comment("MANUAL REVIEW REQUIRED"),
               Comment("Potential relation rename: " \o RelationArrow(change)
                            \o " (low confidence)"),
               Comment("OPTION 1: If this IS a rename (preserve tuples), uncomment:"),
               CommentedCall("omg.RenameRelation", rename),
               Comment("OPTION 2: If these are separate relations (default, safe):"),
               Comment("Remove old relation (new relation already in model.fga)"),
               Call("omg.ReadAllTuples", <<change.TypeName, change.OldValue>>),
               Call("fmt.Printf", <<"Deleting %d tuples from relation '"
                            \o change.TypeName \o "." \o change.OldValue \o "'\\n">>),
               Call("omg.DeleteTuplesBatch", <<"tuples">>),
               Call("omg.RemoveRelationFromType", <<change.TypeName, change.OldValue>>) >>
      [] OTHER ->
            << Comment("Rename relation: " \o RelationArrow(change)),
               Call("omg.RenameRelation", rename) >>

generateRemoveRelation(change) ==
    << Comment("Remove relation: " \o change.TypeName \o "." \o change.RelationName),
       Comment("Step 1: Remove from model"),
       Call("omg.RemoveRelationFromType", <<change.TypeName, change.RelationName>>),
       Comment("Step 2: Delete all tuples with this relation"),
       Call("omg.DeleteRelation", <<change.TypeName, change.RelationName>>) >>

\* every tier in the shape of the fallback
generateRenameType_Fallback(change) ==
    << Comment("Rename type: " \o change.OldValue \o " -> " \o change.NewValue),
       Call("omg.RenameType", <<change.OldValue, change.NewValue>>) >>

generateRenameType(change) ==
    LET rename == <<change.OldValue, change.NewValue>>
        arrow == change.OldValue \o " -> " \o change.NewValue
    IN
    CASE change.Confidence = ConfidenceHigh ->
            << Comment("Rename type: " \o arrow \o " (high confidence rename detected)"),
               Comment("This will migrate all existing tuples to the new type name"),
               Call("omg.RenameType", rename) >>
      [] change.Confidence = ConfidenceMedium ->
            << Comment("REVIEW REQUIRED: Possible rename detected"),
               Comment("Detected: " \o arrow),
               Comment("This appears to be a rename based on similarity analysis."),
               Comment("If this IS a rename (preserving tuples), keep the code below."),
               Comment("If these are separate types, replace with AddType + DeleteType operations."),
               Call("omg.RenameType", rename) >>
      [] change.Confidence = ConfidenceLow ->
            << Comment("MANUAL REVIEW REQUIRED"),
               Comment("Detected potential rename: " \o arrow \o " (low confidence)"),
               Comment("OPTION 1: If this IS a rename (preserve tuples), uncomment:"),
               CommentedCall("omg.RenameType", rename),
               Comment("OPTION 2: If these are separate types (default, safe option):"),
               Comment("Add new type (already in model.fga)"),
               Comment("The new model definition is already applied"),
               Comment("Delete old type and its tuples"),
               Call("omg.ReadAllTuples", <<change.OldValue, "">>),
               Call("fmt.Printf", <<"Deleting %d tuples of type '"
                            \o change.OldValue \o "'\\n">>),
               Call("omg.DeleteTuplesBatch", <<"tuples">>),
               Call("omg.RemoveTypeFromModel", <<change.OldValue>>) >>
      [] OTHER ->
            << Comment("Rename type: " \o arrow),
               Call("omg.RenameType", rename) >>

generateRemoveType(change) ==
    << Comment("Remove type: " \o change.TypeName),
       Comment("Step 1: Delete all tuples of this type"),
       Call("omg.ReadAllTuples", <<change.TypeName, "">>),
       Call("fmt.Printf", <<"Deleting %d tuples of type " \o change.TypeName \o "\\n">>),
       Call("omg.DeleteTuplesBatch", <<"tuples">>),
       Comment("Step 2: Remove type from model"),
       Call("omg.RemoveTypeFromModel", <<change.TypeName>>) >>

-----------------------------------------------------------------------------
(* Ordering of the changes (pkg/migration_generator.go)                    *)

\* strings.FieldsFunc(s, f) for f true on the characters of seps
RECURSIVE Fields(_, _, _, _)
Fields(s, seps, i, cur) ==
    IF i > Len(s) THEN (IF cur = "" THEN <<>> ELSE <<cur>>)
    ELSE IF Contains(seps, Char(s, i))
    THEN (IF cur = "" THEN <<>> ELSE <<cur>>) \o Fields(s, seps, i + 1, "")
    ELSE Fields(s, seps, i + 1, cur \o Char(s, i))

FieldsFunc(s, seps) == Fields(s, seps, 1, "")

extractRelationDependenciesFromDef(relDef, currentRel) ==
    LET fromParts == Split(relDef, " from ")
        arrowParts == Split(relDef, "->")
        words == FieldsFunc(relDef, " ,:#")
        Skip(word) ==
            \/ word \in {"or", "and", "but", "not", "from", "define"}
            \/ word = currentRel
            \/ HasPrefix(word, "[") \/ HasSuffix(word, "]")
            \/ Contains(word, "[") \/ Contains(word, "]")
    IN IF Contains(relDef, " from ") /\ Len(fromParts) = 2
       THEN <<TrimSpace(fromParts[1])>>
       ELSE IF Contains(relDef, "->") /\ Len(arrowParts) = 2
       THEN <<TrimSpace(arrowParts[2])>>
       ELSE SelectSeq(words, LAMBDA word : ~Skip(word))

\* "type.relation"
ChangeKey(change) == change.TypeName \o "." \o change.RelationName

\* fullDeps of one key, as the number of times each key of relations occurs
\* in it (the order of fullDeps plays no part in topologicalSort)
FullDeps(key, relations) ==
    LET parts == Split(key, ".")
        typeName == parts[1]
        relName == parts[2]
        relDef == relations[key]
        depNames == extractRelationDependenciesFromDef(relDef, relName)
        fromParts == Split(relDef, " from ")
        arrowParts == Split(relDef, "->")
        None == [k \in DOMAIN relations |-> 0]
        One(depKey) == [k \in DOMAIN relations |-> IF k = depKey THEN 1 ELSE 0]
        Adds(depName, k) ==
            IF (typeName \o "." \o depName) \in DOMAIN relations
            THEN k = typeName \o "." \o depName
            ELSE HasSuffix(k, "." \o depName)
    IN IF Contains(relDef, " from ")
       THEN (IF Len(fromParts) = 2
             THEN One(TrimSpace(fromParts[2]) \o "." \o TrimSpace(fromParts[1]))
             ELSE None)
       ELSE IF Contains(relDef, "->")
       THEN (IF Len(arrowParts) = 2
             THEN One(typeName \o "." \o TrimSpace(arrowParts[2]))
             ELSE None)
       ELSE [k \in DOMAIN relations |->
                Cardinality({i \in DOMAIN depNames : Adds(depNames[i], k)})]

\* len(dependencies)
RECURSIVE DepCount(_, _)
DepCount(dependencies, nodes) ==
    IF nodes = {} THEN 0
    ELSE LET n == CHOOSE x \in nodes : TRUE
         IN dependencies[n] + DepCount(dependencies, nodes \ {n})

\* the queue loop of topologicalSort; the dependents that reach in-degree 0
\* on the same node are queued in the order the range over deps visits them
RECURSIVE TopoLoop(_, _, _, _)
TopoLoop(deps, queue, sorted, inDegree) ==
    IF queue = <<>> THEN {sorted}
    ELSE LET current == Head(queue)
             decremented == [n \in DOMAIN inDegree |-> inDegree[n] - deps[n][current]]
             released == {n \in DOMAIN deps : deps[n][current] > 0 /\ decremented[n] = 0}
         IN UNION {TopoLoop(deps, Tail(queue) \o p, Append(sorted, current), decremented) :
                        p \in Perms(released)}

\* every list topologicalSort can return, over the iteration orders of its maps
topologicalSort(deps, allNodes) ==
    LET inDegree == [node \in allNodes |-> DepCount(deps[node], allNodes)]
        free == {node \in allNodes : inDegree[node] = 0}
        runs == UNION {TopoLoop(deps, queue, <<>>, inDegree) : queue \in Perms(free)}
    IN UNION {{sorted \o rest : rest \in Perms(allNodes \ Range(sorted))} : sorted \in runs}

\* every list sortRelationChanges can return
sortRelationChanges(changes_) ==
    LET keys == {ChangeKey(changes_[i]) : i \in DOMAIN changes_}
        Last(key) == CHOOSE i \in DOMAIN changes_ :
                        /\ ChangeKey(changes_[i]) = key
                        /\ \A j \in DOMAIN changes_ : ChangeKey(changes_[j]) = key => j <= i
        changeMap == [key \in keys |-> changes_[Last(key)]]
        relations == [key \in keys |-> changeMap[key].NewValue]
        deps == [key \in keys |-> FullDeps(key, relations)]
    IN {[i \in 1..Len(sorted) |-> changeMap[sorted[i]]] : sorted \in topologicalSort(deps, keys)}

\* the order of generateUpMigration's comment: removed relations before renamed types
UpOrder_AsCommented ==
    << ChangeTypeAddType, ChangeTypeAddRelation, ChangeTypeUpdateRelation,
       ChangeTypeRenameRelation, ChangeTypeRemoveRelation, ChangeTypeRenameType,
       ChangeTypeRemoveType >>

UpOrder ==
    << ChangeTypeAddType, ChangeTypeAddRelation, ChangeTypeUpdateRelation,
       ChangeTypeRenameRelation, ChangeTypeRenameType, ChangeTypeRemoveRelation,
       ChangeTypeRemoveType >>

\* every list orderChangesForUp can return
orderChangesForUp(changes_) ==
    {LET Ordered[n \in 0..Len(UpOrder)] ==
            IF n = 0 THEN <<>>
            ELSE Ordered[n - 1] \o (IF UpOrder[n] = ChangeTypeAddRelation
                                    THEN sorted
                                    ELSE OfType(changes_, UpOrder[n]))
     IN Ordered[Len(UpOrder)] :
        sorted \in sortRelationChanges(OfType(changes_, ChangeTypeAddRelation))}

Reverse(seq) == [i \in 1..Len(seq) |-> seq[Len(seq) + 1 - i]]

\* every list orderChangesForDown can return
orderChangesForDown(changes_) == {Reverse(ordered) : ordered \in orderChangesForUp(changes_)}

\* the switch of generateUpMigration
UpBlock(change) ==
    CASE change.Type = ChangeTypeAddType -> generateAddType(change)
      [] change.Type = ChangeTypeAddRelation -> generateAddRelation(change)
      [] change.Type = ChangeTypeUpdateRelation -> generateUpdateRelation(change)
      [] change.Type = ChangeTypeRenameRelation -> generateRenameRelation(change)
      [] change.Type = ChangeTypeRemoveRelation -> generateRemoveRelation(change)
      [] change.Type = ChangeTypeRenameType -> generateRenameType(change)
      [] change.Type = ChangeTypeRemoveType -> generateRemoveType(change)

\* every body generateUpMigration can return
generateUpMigration(changes_) ==
    {[i \in 1..Len(ordered) |-> UpBlock(ordered[i])] : ordered \in orderChangesForUp(changes_)}

\* the switch of generateDownMigration
DownBlock(change) ==
    CASE change.Type = ChangeTypeAddType ->
            generateRemoveType(ModelChange("", change.TypeName, "", "", "", "", ConfidenceNone))
      [] change.Type = ChangeTypeRemoveType ->
            << Comment("NOTE: Cannot automatically restore removed type"),
               Comment("You need to manually add type '" \o change.TypeName \o "' back") >>
      [] change.Type = ChangeTypeAddRelation -> generateRemoveRelation(change)
      [] change.Type = ChangeTypeRemoveRelation ->
            << Comment("NOTE: Cannot automatically restore removed relation"),
               Comment("You need to manually add relation '" \o change.TypeName \o "."
                            \o change.RelationName \o "' back") >>
      [] change.Type = ChangeTypeUpdateRelation ->
            generateUpdateRelation(ModelChange("", change.TypeName, change.RelationName,
                                               "", change.OldValue, "", ConfidenceNone))
      [] change.Type = ChangeTypeRenameRelation ->
            generateRenameRelation(ModelChange("", change.TypeName, change.NewValue,
                                               change.NewValue, change.OldValue, "",
                                               ConfidenceNone))
      [] change.Type = ChangeTypeRenameType ->
            generateRenameType(ModelChange("", change.NewValue, "", change.NewValue,
                                           change.OldValue, "", ConfidenceNone))

\* every body generateDownMigration can return
generateDownMigration(changes_) ==
    {[i \in 1..Len(ordered) |-> DownBlock(ordered[i])] :
        ordered \in orderChangesForDown(changes_)}

\* the up and down functions of every file generateMigrationCode can return
generateMigrationCode(changes_) ==
    {[up |-> [comments |-> << Comment("Auto-generated migration"),
                              Comment("Changes detected:") >>
                           \o [i \in 1..Len(changes_) |-> Comment("- " \o changes_[i].Details)],
              blocks |-> up],
      down |-> [comments |-> <<Comment("Rollback operations")>>, blocks |-> down]] :
        up \in generateUpMigration(changes_), down \in generateDownMigration(changes_)}

-----------------------------------------------------------------------------
(* The DSL parser (parseRelationDefinition, extractTypeRestrictions,      *)
(* parseDSLToModel)                                                        *)

TrimPrefix(s, p) == IF HasPrefix(s, p) THEN SubSeq(s, Len(p) + 1, Len(s)) ELSE s

TrimSuffix(s, p) == IF HasSuffix(s, p) THEN SubSeq(s, 1, Len(s) - Len(p)) ELSE s

\* strings.SplitN(s, sep, 2)
SplitN2(s, sep) ==
    LET i == Index(s, sep) IN
    IF i = 0 THEN <<s>> ELSE <<SubSeq(s, 1, i - 1), SubSeq(s, i + Len(sep), Len(s))>>

IdentStart == "ABCDEFGHIJKLMNOPQRSTUVWXYZabcdefghijklmnopqrstuvwxyz_"

\* the regular expression ^[a-zA-Z_][a-zA-Z0-9_]*$
IsIdentifier(def) ==
    /\ Len(def) >= 1
    /\ Contains(IdentStart, Char(def, 1))
    /\ \A i \in 2..Len(def) : Contains(IdentStart, Char(def, i)) \/ Contains(Digits, Char(def, i))

\* the zero Userset that is returned next to an error
NoUserset == [k |-> "none"]

ParseOk(userset) == [err |-> "", userset |-> userset]

ParseError(message, def) == [err |-> message \o ": " \o def, userset |-> NoUserset]

\* a RelationReference; Relation is "" when the pointer is nil
RelationReference(type, relation) == [Type |-> type, Relation |-> relation]

\* the type#relation entries of the interior of a bracketed list; strict
\* is the parser's loop, which fails on an entry with more than one '#',
\* where extractTypeRestrictions skips it
TypeList(typesStr, strict) ==
    LET typeList == Split(typesStr, ",")
        Scan[i \in 0..Len(typeList)] ==
            IF i = 0 THEN [err |-> "", refs |-> <<>>]
            ELSE LET acc == Scan[i - 1]
                     t == TrimSpace(typeList[i])
                     parts == Split(t, "#")
                 IN IF acc.err # "" \/ t = "" THEN acc
                    ELSE IF Contains(t, "#")
                    THEN (IF Len(parts) = 2
                          THEN [acc EXCEPT !.refs = Append(@, RelationReference(parts[1], parts[2]))]
                          ELSE IF strict
                          THEN [acc EXCEPT !.err = "invalid type#relation format: " \o t]
                          ELSE acc)
                    ELSE [acc EXCEPT !.refs = Append(@, RelationReference(t, ""))]
    IN Scan[Len(typeList)]

\* " and " is tried before " or "
FormOrder_AndFirst == <<"and", "or", "but not", "direct", "from", "arrow", "computed">>

\* the order of the if statements of parseRelationDefinition
FormOrder == <<"or", "and", "but not", "direct", "from", "arrow", "computed">>

\* the condition of the if statement of a form
FormTrigger(form, def) ==
    CASE form = "or" -> Contains(def, " or ")
      [] form = "and" -> Contains(def, " and ")
      [] form = "but not" -> Contains(def, " but not ")
      [] form = "direct" -> HasPrefix(def, "[") /\ HasSuffix(def, "]")
      [] form = "from" -> Contains(def, " from ")
      [] form = "arrow" -> Contains(def, "->")
      [] form = "computed" -> IsIdentifier(def)

RECURSIVE parseRelationDefinition(_)

\* the loop over the parts of a union or intersection: the children parsed
\* so far, or the error of the first part that fails
ParseChildren(parts) ==
    LET Scan[i \in 0..Len(parts)] ==
            IF i = 0 THEN [err |-> "", children |-> <<>>]
            ELSE LET acc == Scan[i - 1] IN
                 IF acc.err # "" THEN acc
                 ELSE LET child == parseRelationDefinition(TrimSpace(parts[i])) IN
                      IF child.err # "" THEN [acc EXCEPT !.err = child.err]
                      ELSE [acc EXCEPT !.children = Append(@, child.userset)]
    IN Scan[Len(parts)]

\* "X from Y": tupleset is the part after " from ", computed the part before
FromUserset(parts) == TupleToUserset(TrimSpace(parts[2]), TrimSpace(parts[1]))

\* the operands of "->" taken in the order of " from "
ArrowUserset_AsFrom(parts) == TupleToUserset(TrimSpace(parts[2]), TrimSpace(parts[1]))

\* "Y->X": tupleset is the part before "->", computed the part after
ArrowUserset(parts) == TupleToUserset(TrimSpace(parts[1]), TrimSpace(parts[2]))

\* the body of the if statement of a form
ParseForm(form, def) ==
    CASE form = "or" ->
            LET res == ParseChildren(Split(def, " or ")) IN
            IF res.err # "" THEN [err |-> res.err, userset |-> NoUserset]
            ELSE ParseOk(Union(res.children))
      [] form = "and" ->
            LET res == ParseChildren(Split(def, " and ")) IN
            IF res.err # "" THEN [err |-> res.err, userset |-> NoUserset]
            ELSE ParseOk(Intersection(res.children))
      [] form = "but not" ->
            LET parts == Split(def, " but not ") IN
            IF Len(parts) # 2 THEN ParseError("invalid 'but not' syntax", def)
            ELSE LET base == parseRelationDefinition(TrimSpace(parts[1])) IN
                 IF base.err # "" THEN base
                 ELSE LET subtract == parseRelationDefinition(TrimSpace(parts[2])) IN
                      IF subtract.err # "" THEN subtract
                      ELSE ParseOk(Difference(base.userset, subtract.userset))
      [] form = "direct" ->
            LET res == TypeList(TrimPrefix(TrimSuffix(def, "]"), "["), TRUE) IN
            IF res.err # "" THEN [err |-> res.err, userset |-> NoUserset]
            ELSE ParseOk(This)
      [] form = "from" ->
            LET parts == Split(def, " from ") IN
            IF Len(parts) # 2 THEN ParseError("invalid 'from' syntax", def)
            ELSE ParseOk(FromUserset(parts))
      [] form = "arrow" ->
            LET parts == Split(def, "->") IN
            IF Len(parts) # 2 THEN ParseError("invalid tuple-to-userset format", def)
            ELSE ParseOk(ArrowUserset(parts))
      [] form = "computed" -> ParseOk(Computed(def))

parseRelationDefinition(def) ==
    LET forms == SelectSeq(FormOrder, LAMBDA form : FormTrigger(form, def)) IN
    IF forms = <<>> THEN ParseError("unable to parse relation definition", def)
    ELSE ParseForm(forms[1], def)

extractTypeRestrictions(def) ==
    LET fromParts == Split(def, " from ")
        arrowParts == Split(def, "->")
        start == Index(def, "[")
        end == Index(def, "]")
    IN IF Contains(def, " from ") /\ Len(fromParts) = 2
       THEN <<RelationReference(TrimSpace(fromParts[2]), "")>>
       ELSE IF Contains(def, "->") /\ Len(arrowParts) = 2
       THEN <<RelationReference(TrimSpace(arrowParts[1]), "")>>
       ELSE IF ~Contains(def, "[") \/ ~Contains(def, "]") THEN <<>>
       ELSE IF end <= start THEN <<>>
       ELSE TypeList(SubSeq(def, start + 1, end - 1), FALSE).refs

\* a TypeDefinition: Relations maps a relation name to its Userset, Metadata
\* maps a relation name to its DirectlyRelatedUserTypes
TypeDefinition(type, relations, metadata) ==
    [Type |-> type, Relations |-> relations, Metadata |-> metadata]

NoMap == [x \in {} |-> x]

\* currentType == nil
NoType == [Type |-> "", Relations |-> NoMap, Metadata |-> NoMap, nil |-> TRUE]

OpenType(typeName) == [Type |-> typeName, Relations |-> NoMap, Metadata |-> NoMap, nil |-> FALSE]

\* append(model.TypeDefinitions, *currentType)
SaveType(typeDefinitions, currentType) ==
    IF currentType.nil THEN typeDefinitions
    ELSE Append(typeDefinitions,
                TypeDefinition(currentType.Type, currentType.Relations, currentType.Metadata))

\* the body of the loop of parseDSLToModel for line number i
ParseLine(st, rawLine, i) ==
    LET line == TrimSpace(rawLine)
        defineStr == TrimSpace(TrimPrefix(line, "define"))
        parts == SplitN2(defineStr, ":")
        relationName == TrimSpace(parts[1])
        relationDef == TrimSpace(parts[2])
        parsed == parseRelationDefinition(relationDef)
        typeRestrictions == extractTypeRestrictions(relationDef)
        isDirect == Contains(relationDef, "[")
    IN IF st.err # "" THEN st
       ELSE IF line = "" \/ HasPrefix(line, "#") THEN st
       ELSE IF HasPrefix(line, "schema ")
       THEN [st EXCEPT !.SchemaVersion = TrimSpace(TrimPrefix(line, "schema"))]
       ELSE IF line = "model" THEN st
       ELSE IF HasPrefix(line, "type ")
       THEN [st EXCEPT !.TypeDefinitions = SaveType(@, st.currentType),
                       !.currentType = OpenType(TrimSpace(TrimPrefix(line, "type"))),
                       !.inRelations = FALSE]
       ELSE IF line = "relations" THEN [st EXCEPT !.inRelations = TRUE]
       ELSE IF st.inRelations /\ HasPrefix(line, "define ")
       THEN (IF st.currentType.nil
             THEN [st EXCEPT !.err = "relation defined outside of type at line " \o Itoa(i)]
             ELSE IF Len(parts) # 2
             THEN [st EXCEPT !.err = "invalid relation definition at line " \o Itoa(i)
                                        \o ": " \o line]
             ELSE IF parsed.err # ""
             THEN [st EXCEPT !.err = "failed to parse relation '" \o relationName
                                        \o "' at line " \o Itoa(i) \o ": " \o parsed.err]
             ELSE [st EXCEPT
                     !.currentType.Relations = (relationName :> parsed.userset) @@ @,
                     !.currentType.Metadata =
                        IF Len(typeRestrictions) > 0 /\ isDirect
                        THEN (relationName :> typeRestrictions) @@ @
                        ELSE @])
       ELSE st

\* the model and the error parseDSLToModel returns
parseDSLToModel(dsl) ==
    LET lines == Split(dsl, "\n")
        Scan[i \in 0..Len(lines)] ==
            IF i = 0
            THEN [err |-> "", SchemaVersion |-> "1.1", TypeDefinitions |-> <<>>,
                  currentType |-> NoType, inRelations |-> FALSE]
            ELSE ParseLine(Scan[i - 1], lines[i], i)
        last == Scan[Len(lines)]
    IN [err |-> last.err,
        SchemaVersion |-> last.SchemaVersion,
        TypeDefinitions |-> IF last.err # "" THEN last.TypeDefinitions
                            ELSE SaveType(last.TypeDefinitions, last.currentType)]

ParseDSLToModel(dsl) == parseDSLToModel(dsl)

\* the relations of the type definitions, as the range loops of BuildModelState
\* see them: a later definition of a type name replaces an earlier one
RelationsByType(typeDefinitions) ==
    LET names == {typeDefinitions[i].Type : i \in DOMAIN typeDefinitions}
        Last(name) == CHOOSE i \in DOMAIN typeDefinitions :
                        /\ typeDefinitions[i].Type = name
                        /\ \A j \in DOMAIN typeDefinitions :
                                typeDefinitions[j].Type = name => j <= i
    IN [name \in names |-> typeDefinitions[Last(name)].Relations]

-----------------------------------------------------------------------------
(* The diff pipeline of generateMigration (cmd/omg/main.go)                *)

TypeNames == {"team", "teams", "organization"}
RelNames == {"owner", "owners", "member"}

\* definitions a relation of the bounded models can have
UsersetsOf(r) == IF r = "owner" THEN {This, Union(<<This, Computed("member")>>)} ELSE {This}

RelationMaps ==
    UNION {{f \in [R -> UNION {UsersetsOf(r) : r \in R}] : \A r \in R : f[r] \in UsersetsOf(r)} :
            R \in {X \in SUBSET RelNames : Cardinality(X) <= MaxRels}}

RelationCount(model) ==
    LET Sum[T \in SUBSET DOMAIN model] ==
            IF T = {} THEN 0
            ELSE LET t == CHOOSE x \in T : TRUE
                 IN Cardinality(DOMAIN model[t]) + Sum[T \ {t}]
    IN Sum[DOMAIN model]

\* the bounded authorization models
Models ==
    {m \in UNION {[T -> RelationMaps] :
                    T \in {X \in SUBSET TypeNames : Cardinality(X) <= MaxTypes}} :
        RelationCount(m) <= MaxRels}

EmptyState == [Types |-> <<>>]

NoCode == [comments |-> <<>>, blocks |-> <<>>]

GenIdle ==
    /\ genChanges = <<>>
    /\ upCode = NoCode
    /\ downCode = NoCode
    /\ genErr = ""
    /\ dirExists = FALSE
    /\ gpc = "idle"

DiffIdle ==
    /\ oldState = EmptyState
    /\ newState = EmptyState
    /\ changes = <<>>
    /\ enhanced = <<>>
    /\ pc = "idle"

TierIdle ==
    /\ argNameSim = Zero
    /\ argRelSim = Zero
    /\ resConfidence = ConfidenceNone
    /\ tpc = "idle"

UpIdle ==
    /\ upDir = {}
    /\ upPc = "idle"
    /\ upFiles = <<>>
    /\ upApplied = {}
    /\ upIdx = 0
    /\ upErr = ""
    /\ upRan = <<>>
    /\ upLedger0 = {}
    /\ upRuns = 0
    /\ upPrevClean = FALSE

NoHelper == [op |-> "", objectType |-> "", from |-> "", to |-> "", transform |-> ""]

HIdle ==
    /\ hCall = NoHelper
    /\ hPc = "idle"
    /\ hOld = <<>>
    /\ hNew = <<>>
    /\ hBatch = 0
    /\ hErr = ""
    /\ hStore0 = {}

RIdle ==
    /\ migrations = <<>>
    /\ regSorted = <<>>
    /\ regShares = FALSE
    /\ regOp = ""
    /\ regSince = <<>>
    /\ regBefore = <<>>

SIdle ==
    /\ srtChanges = <<>>
    /\ srtDeps = <<>>
    /\ srtSorted = <<>>
    /\ srtPc = "idle"

NoModel == [err |-> "", SchemaVersion |-> "", TypeDefinitions |-> <<>>]

\* an AuthorizationModel of the service without type definitions
NoSvcModel == [SchemaVersion |-> "", TypeDefinitions |-> <<>>]

NoMdlCall == [op |-> "", typeName |-> "", relationName |-> "", def |-> "", relations |-> <<>>]

MdlIdle ==
    /\ svcModel = NoSvcModel
    /\ mdlCall = NoMdlCall
    /\ mdlPc = "idle"
    /\ mdlErr = ""
    /\ mdlCurrent = NoModel
    /\ mdlRead = NoSvcModel
    /\ mdlWritten = FALSE

MoreIdle ==
    /\ UpIdle
    /\ HIdle
    /\ RIdle
    /\ SIdle
    /\ MdlIdle

ParseIdle ==
    /\ parseDef = ""
    /\ parseRes = ParseOk(NoUserset)
    /\ dpc = "idle"
    /\ oldDsl = ""
    /\ newDsl = ""
    /\ oldModel = NoModel
    /\ newModel = NoModel
    /\ mpc = "idle"

NoCall == [op |-> "", version |-> "", clientErr |-> "", err |-> ""]

NoApplied == [err |-> "", versions |-> {}]

TrackIdle ==
    /\ store = {}
    /\ lastCall = NoCall
    /\ applied = NoApplied
    /\ recorded = {}

\* generateMigration has loaded the two model states
InitDiff ==
    /\ oldState \in {BuildModelStateFromAuthorizationModel(m) : m \in Models}
    /\ newState \in {BuildModelState(m) : m \in Models}
    /\ changes = <<>>
    /\ enhanced = <<>>
    /\ pc = "loaded"
    /\ TierIdle
    /\ GenIdle
    /\ ParseIdle
    /\ TrackIdle
    /\ MoreIdle

\* a caller is about to classify a pair of similarity scores
InitTier ==
    /\ argNameSim \in {Score(k, ScoreSteps, e) : k \in 0..ScoreSteps, e \in {-1, 0, 1}}
    /\ argRelSim \in {Score(k, ScoreSteps, 0) : k \in 0..ScoreSteps}
    /\ resConfidence = ConfidenceNone
    /\ tpc = "called"
    /\ DiffIdle
    /\ GenIdle
    /\ ParseIdle
    /\ TrackIdle
    /\ MoreIdle

Init == InitDiff \/ InitTier

\* changes := omg.DetectChanges(oldState, newState)
RunDetectChanges ==
    /\ pc = "loaded"
    /\ changes' \in DetectChanges(oldState, newState)
    /\ pc' = "detected"
    /\ UNCHANGED <<oldState, newState, enhanced>>
    /\ UNCHANGED <<genVars, tierVars>>
    /\ UNCHANGED <<parseVars, trackVars>>
    /\ UNCHANGED moreVars

\* changes = omg.DetectPotentialRenames(changes, oldState, newState)
RunDetectPotentialRenames ==
    /\ pc = "detected"
    /\ \E groupOrder \in Perms(RelationGroupKeys(changes)) :
            enhanced' = DetectPotentialRenames(changes, oldState, newState, groupOrder)
    /\ pc' = "enhanced"
    /\ UNCHANGED <<oldState, newState, changes>>
    /\ UNCHANGED <<genVars, tierVars>>
    /\ UNCHANGED <<parseVars, trackVars>>
    /\ UNCHANGED moreVars

RunDetermineRenameConfidence ==
    /\ tpc = "called"
    /\ resConfidence' = determineRenameConfidence(argNameSim, argRelSim)
    /\ tpc' = "returned"
    /\ UNCHANGED <<argNameSim, argRelSim>>
    /\ UNCHANGED <<diffVars, genVars>>
    /\ UNCHANGED <<parseVars, trackVars>>
    /\ UNCHANGED moreVars

Next == RunDetectChanges \/ RunDetectPotentialRenames \/ RunDetermineRenameConfidence

Spec == Init /\ [][Next]_vars

-----------------------------------------------------------------------------
(* GenerateMigrationFromChanges on a change list                           *)

\* a rename as DetectPotentialRenames reports it at tier conf
BestOfTier(conf) ==
    [match |-> 1, conf |-> conf, nameSim |-> Score(4, 5, 0), relSim |-> Score(1, 1, 0)]

GenAddRelations ==
    { AddRelationChange("document", "owner", "[user]"),
      AddRelationChange("document", "editor", "[user] or owner"),
      AddRelationChange("document", "viewer", "[user] or editor"),
      AddRelationChange("document", "owner", "editor"),
      AddRelationChange("document", "viewer", "owner or viewer from parent"),
      AddRelationChange("document", "viewer", "parent->owner"),
      AddRelationChange("folder", "viewer", "[user] or owner"),
      AddRelationChange("folder", "viewer", "owner from document"),
      AddRelationChange("document", "viewer",
                        serializeUserset(Union(<<This, Computed("owner")>>))),
      AddRelationChange("document", "owner", serializeUserset(This)) }

GenRenames ==
    {RenameRelationChange("document", [RelationName |-> "owner"], [RelationName |-> "owners"],
                          BestOfTier(conf)) :
        conf \in {ConfidenceHigh, ConfidenceMedium, ConfidenceLow}}
    \cup {RenameTypeChange([TypeName |-> "team"], [TypeName |-> "teams"], BestOfTier(conf)) :
            conf \in {ConfidenceHigh, ConfidenceMedium, ConfidenceLow, ConfidenceNone}}

\* the changes a list handed to the generator is made of
GenChangeUniverse ==
    GenAddRelations \cup GenRenames
    \cup { ModelChange(ChangeTypeAddType, "folder", "", "", "",
                       "New type 'folder' with 1 relations", ConfidenceNone),
           RemoveTypeChange("team"),
           UpdateRelationChange("document", "owner", "[user]", "[user] or editor"),
           RemoveRelationChange("document", "editor", "[user]") }

\* the lists of at most MaxChanges different changes
GenChangeLists ==
    UNION {{s \in [1..n -> GenChangeUniverse] : \A i, j \in 1..n : s[i] = s[j] => i = j} :
            n \in 0..MaxChanges}

InitGen ==
    /\ genChanges \in GenChangeLists
    /\ upCode = NoCode
    /\ downCode = NoCode
    /\ genErr = ""
    /\ dirExists = FALSE
    /\ gpc = "called"
    /\ DiffIdle
    /\ TierIdle
    /\ ParseIdle
    /\ TrackIdle
    /\ MoreIdle

\* os.MkdirAll is called before the length of the change list is looked at
RunGenerateMigrationFromChanges_MkdirFirst ==
    /\ gpc = "called"
    /\ \E code \in generateMigrationCode(genChanges), mkdir \in BOOLEAN, write \in BOOLEAN :
            IF ~mkdir
            THEN /\ genErr' = "failed to create migrations directory"
                 /\ gpc' = "failed"
                 /\ UNCHANGED <<upCode, downCode, dirExists>>
            ELSE IF Len(genChanges) = 0
            THEN /\ genErr' = "no changes detected"
                 /\ gpc' = "failed"
                 /\ dirExists' = TRUE
                 /\ UNCHANGED <<upCode, downCode>>
            ELSE IF ~write
            THEN /\ genErr' = "failed to write migration file"
                 /\ gpc' = "failed"
                 /\ dirExists' = TRUE
                 /\ UNCHANGED <<upCode, downCode>>
            ELSE /\ upCode' = code.up
                 /\ downCode' = code.down
                 /\ dirExists' = TRUE
                 /\ gpc' = "written"
                 /\ UNCHANGED genErr
    /\ UNCHANGED genChanges
    /\ UNCHANGED <<diffVars, tierVars>>
    /\ UNCHANGED <<parseVars, trackVars>>
    /\ UNCHANGED moreVars

\* GenerateMigrationFromChanges(changes, name, migrationsDir); mkdir and write
\* are the outcomes of os.MkdirAll and os.WriteFile
RunGenerateMigrationFromChanges ==
    /\ gpc = "called"
    /\ IF Len(genChanges) = 0
       THEN /\ genErr' = "no changes detected"
            /\ gpc' = "failed"
            /\ UNCHANGED <<upCode, downCode, dirExists>>
       ELSE \E code \in generateMigrationCode(genChanges), mkdir \in BOOLEAN, write \in BOOLEAN :
                IF ~mkdir
                THEN /\ genErr' = "failed to create migrations directory"
                     /\ gpc' = "failed"
                     /\ UNCHANGED <<upCode, downCode, dirExists>>
                ELSE IF ~write
                THEN /\ genErr' = "failed to write migration file"
                     /\ gpc' = "failed"
                     /\ dirExists' = TRUE
                     /\ UNCHANGED <<upCode, downCode>>
                ELSE /\ upCode' = code.up
                     /\ downCode' = code.down
                     /\ dirExists' = TRUE
                     /\ gpc' = "written"
                     /\ UNCHANGED genErr
    /\ UNCHANGED genChanges
    /\ UNCHANGED <<diffVars, tierVars>>
    /\ UNCHANGED <<parseVars, trackVars>>
    /\ UNCHANGED moreVars

NextGen == RunGenerateMigrationFromChanges

SpecGen == InitGen /\ [][NextGen]_vars

-----------------------------------------------------------------------------
(* generateMigration: detection, confirmation and generation in one run     *)

\* confirmChanges keeps every change; the list goes to
\* GenerateMigrationFromChanges (generateMigration returns before that when
\* DetectChanges found nothing)
RunConfirmChanges ==
    /\ pc = "enhanced"
    /\ gpc = "idle"
    /\ Len(changes) > 0
    /\ genChanges' = enhanced
    /\ gpc' = "called"
    /\ pc' = "confirmed"
    /\ UNCHANGED <<oldState, newState, changes, enhanced>>
    /\ UNCHANGED <<upCode, downCode, genErr, dirExists>>
    /\ UNCHANGED <<tierVars, parseVars, trackVars>>
    /\ UNCHANGED moreVars

\* the model pairs of a run: models of at most one type
InitMigrate ==
    /\ InitDiff
    /\ Cardinality(DOMAIN oldState.Types) <= 1
    /\ Cardinality(DOMAIN newState.Types) <= 1

NextMigrate ==
    \/ RunDetectChanges
    \/ RunDetectPotentialRenames
    \/ RunConfirmChanges
    \/ RunGenerateMigrationFromChanges

SpecMigrate == InitMigrate /\ [][NextMigrate]_vars

-----------------------------------------------------------------------------
(* The parser on relation definitions and on pairs of model files          *)

DefAtoms ==
    {"owner", "editor", "parent", "[user]", "[user, group#member]", "[group#member#x]",
     "(owner)", "parent->owner", "x->y->z", ""}

DefOperands == {"owner", "[user]", "(owner)"}

DefConnectives == {" or ", " and ", " but not ", " from ", "->"}

\* the definitions of n operands of DefOperands
RECURSIVE DefsOf(_)
DefsOf(n) ==
    IF n = 1 THEN DefOperands
    ELSE {d \o c \o a : d \in DefsOf(n - 1), c \in DefConnectives, a \in DefOperands}

\* the definitions handed to parseRelationDefinition: its callers trim them
Definitions ==
    {def \in DefAtoms
            \cup {a \o c \o b : a \in DefAtoms, c \in DefConnectives, b \in DefAtoms}
            \cup UNION {DefsOf(n) : n \in 1..MaxOperands} :
        TrimSpace(def) = def}

\* a model file whose type document defines can_write as def
ModelFile(def) ==
    "model\n  schema 1.1\n\ntype user\n\ntype document\n  relations\n"
        \o "    define owner: [user]\n    define can_write: " \o def

FileDefs ==
    {"[user] or owner", "[user, group#member] or owner", "owner", "owner from parent",
     "parent->owner", "parent from owner", "owner->parent", "[user] or parent->owner",
     "[user] or admin from team", "(owner)", "[user] or (owner) from parent"}

\* the model files handed to ParseDSLToModel
ModelFiles ==
    {ModelFile(def) : def \in FileDefs}
    \cup {"relations", "relations\n  define owner: [user]",
          "model\n  schema 1.1\nrelations\ntype document\n  relations\n    define owner: [user]",
          "type document\n  relations\n    define owner [user]"}

\* a caller is about to parse a relation definition
InitParseDef ==
    /\ parseDef \in Definitions
    /\ parseRes = ParseOk(NoUserset)
    /\ dpc = "called"
    /\ oldDsl = ""
    /\ newDsl = ""
    /\ oldModel = NoModel
    /\ newModel = NoModel
    /\ mpc = "idle"
    /\ DiffIdle
    /\ TierIdle
    /\ GenIdle
    /\ TrackIdle
    /\ MoreIdle

\* two versions of model.fga are about to be parsed and compared
InitParseFiles ==
    /\ oldDsl \in ModelFiles
    /\ newDsl \in ModelFiles
    /\ oldModel = NoModel
    /\ newModel = NoModel
    /\ mpc = "files"
    /\ parseDef = ""
    /\ parseRes = ParseOk(NoUserset)
    /\ dpc = "idle"
    /\ DiffIdle
    /\ TierIdle
    /\ GenIdle
    /\ TrackIdle
    /\ MoreIdle

InitParse == InitParseDef \/ InitParseFiles

RunParseRelationDefinition ==
    /\ dpc = "called"
    /\ parseRes' = parseRelationDefinition(parseDef)
    /\ dpc' = "returned"
    /\ UNCHANGED <<parseDef, oldDsl, newDsl, oldModel, newModel, mpc>>
    /\ UNCHANGED <<diffVars, genVars, tierVars, trackVars>>
    /\ UNCHANGED moreVars

\* omg.ParseDSLToModel on both files
RunParseDSLToModel ==
    /\ mpc = "files"
    /\ oldModel' = ParseDSLToModel(oldDsl)
    /\ newModel' = ParseDSLToModel(newDsl)
    /\ mpc' = IF oldModel'.err # "" \/ newModel'.err # "" THEN "failed" ELSE "parsed"
    /\ UNCHANGED <<parseDef, parseRes, dpc, oldDsl, newDsl>>
    /\ UNCHANGED <<diffVars, genVars, tierVars, trackVars>>
    /\ UNCHANGED moreVars

\* the ModelStates of the two parsed models
RunBuildModelState ==
    /\ mpc = "parsed"
    /\ pc = "idle"
    /\ oldState' = BuildModelState(RelationsByType(oldModel.TypeDefinitions))
    /\ newState' = BuildModelState(RelationsByType(newModel.TypeDefinitions))
    /\ pc' = "loaded"
    /\ mpc' = "built"
    /\ UNCHANGED <<changes, enhanced>>
    /\ UNCHANGED <<parseDef, parseRes, dpc, oldDsl, newDsl, oldModel, newModel>>
    /\ UNCHANGED <<genVars, tierVars, trackVars>>
    /\ UNCHANGED moreVars

NextParse ==
    \/ RunParseRelationDefinition
    \/ RunParseDSLToModel
    \/ RunBuildModelState
    \/ RunDetectChanges
    \/ RunDetectPotentialRenames

SpecParse == InitParse /\ [][NextParse]_vars

-----------------------------------------------------------------------------
(* The migration tracker (pkg/tracker.go) over the tuples of the service   *)

Tuple(user, relation, object) == [User |-> user, Relation |-> relation, Object |-> object]

ReadTuplesRequest(user, relation, object) ==
    [User |-> user, Relation |-> relation, Object |-> object]

\* Client.readAndFilterByType: the tuples whose object starts with the type
\* prefix and whose user and relation match the request where it names them
readAndFilterByType(tuples, req) ==
    {tuple \in tuples :
        /\ HasPrefix(tuple.Object, req.Object)
        /\ req.User # "" => tuple.User = req.User
        /\ req.Relation # "" => tuple.Relation = req.Relation}

\* the tuple Record writes and Remove deletes
TrackerTuple(version) == Tuple("system:migration-tracker", "applied", "migration:" \o version)

\* the keys of the map GetApplied builds from the tuples it has read
AppliedVersions(tuples) ==
    {SubSeq(tuple.Object, 11, Len(tuple.Object)) :
        tuple \in {t \in tuples : Len(t.Object) > 10 /\ SubSeq(t.Object, 1, 10) = "migration:"}}

\* versions passed to Record and Remove
Versions == {"", "001", "002", "003"}

\* tuples of the store that the tracker does not write
OtherTuples ==
    {Tuple("user:anne", "viewer", "document:1"),
     Tuple("user:anne", "applied", "migration:009")}

InitTracker ==
    /\ store \in SUBSET OtherTuples
    /\ lastCall = NoCall
    /\ applied = NoApplied
    /\ recorded = {}
    /\ DiffIdle
    /\ TierIdle
    /\ GenIdle
    /\ ParseIdle
    /\ MoreIdle

\* Tracker.Record(ctx, version, name): Client.WriteTuple of the tracker tuple;
\* the service accepts the write or answers with an error
TrackerRecord ==
    \E version \in Versions, ok \in BOOLEAN :
        /\ IF ok
           THEN /\ store' = store \cup {TrackerTuple(version)}
                /\ recorded' = recorded \cup {version}
                /\ lastCall' = [op |-> "Record", version |-> version, clientErr |-> "", err |-> ""]
           ELSE /\ lastCall' = [op |-> "Record", version |-> version,
                                clientErr |-> "write failed", err |-> "write failed"]
                /\ UNCHANGED <<store, recorded>>
        /\ UNCHANGED applied
        /\ UNCHANGED <<diffVars, genVars, tierVars, parseVars>>
        /\ UNCHANGED moreVars

\* Tracker.Remove(ctx, version): Client.DeleteTuple of the tracker tuple
TrackerRemove ==
    \E version \in Versions, ok \in BOOLEAN :
        /\ IF ok
           THEN /\ store' = store \ {TrackerTuple(version)}
                /\ recorded' = recorded \ {version}
                /\ lastCall' = [op |-> "Remove", version |-> version, clientErr |-> "", err |-> ""]
           ELSE /\ lastCall' = [op |-> "Remove", version |-> version,
                                clientErr |-> "write failed", err |-> "write failed"]
                /\ UNCHANGED <<store, recorded>>
        /\ UNCHANGED applied
        /\ UNCHANGED <<diffVars, genVars, tierVars, parseVars>>
        /\ UNCHANGED moreVars

\* Tracker.GetApplied(ctx): Client.ReadAllTuples on the migration: prefix; when
\* the read fails the method returns an empty map and a nil error
TrackerGetApplied ==
    \E ok \in BOOLEAN :
        /\ IF ok
           THEN /\ applied' = [err |-> "",
                               versions |-> AppliedVersions(readAndFilterByType(store,
                                   ReadTuplesRequest("system:migration-tracker", "", "migration:")))]
                /\ lastCall' = [op |-> "GetApplied", version |-> "", clientErr |-> "", err |-> ""]
           ELSE /\ applied' = [err |-> "", versions |-> {}]
                /\ lastCall' = [op |-> "GetApplied", version |-> "",
                                clientErr |-> "failed to read tuples", err |-> ""]
        /\ UNCHANGED <<store, recorded>>
        /\ UNCHANGED <<diffVars, genVars, tierVars, parseVars>>
        /\ UNCHANGED moreVars

NextTracker == TrackerRecord \/ TrackerRemove \/ TrackerGetApplied

SpecTracker == InitTracker /\ [][NextTracker]_vars

-----------------------------------------------------------------------------
(* `omg up` (cmd/omg/main.go, runUp) over the migrations directory and the  *)
(* ledger                                                                  *)

migrationsDir == "migrations"

\* filepath.Base of a path below the migrations directory
Base(path) ==
    LET parts == Split(path, "/") IN parts[Len(parts)]

extractVersionFromFilename(filename) ==
    LET parts == SplitN2(Base(filename), "_") IN
    IF Len(parts) < 2 THEN "" ELSE parts[1]

extractNameFromFilename(filename) ==
    LET parts == SplitN2(Base(filename), "_") IN
    IF Len(parts) < 2 THEN "" ELSE TrimSuffix(parts[2], ".go")

\* filepath.Glob(migrationsDir/*_*.go)
Glob(dir) ==
    {migrationsDir \o "/" \o base :
        base \in {b \in dir : Contains(b, "_") /\ HasSuffix(b, ".go")}}

\* the files runUp keeps: not migrations.go, no "example" in the base name
MigrationFilesOf(dir) ==
    {file \in Glob(dir) : Base(file) # "migrations.go" /\ ~Contains(Base(file), "example")}

\* sort.Strings
SortStrings(strings) ==
    CHOOSE sorted \in Perms(strings) :
        \A i \in 1..(Len(sorted) - 1) : ~StrGreater(sorted[i], sorted[i + 1])

\* the keys of the map a successful GetApplied returns for a store
LedgerVersions(tuples) ==
    AppliedVersions(readAndFilterByType(tuples,
        ReadTuplesRequest("system:migration-tracker", "", "migration:")))

\* base names a migrations directory can hold
DirFiles ==
    {"001_init.go", "002_add_team.go", "003_rename_team.go", "002_example_data.go",
     "migrations.go", "_seed.go"}

InitUp ==
    /\ upDir \in SUBSET DirFiles
    /\ store \in SUBSET {TrackerTuple("001")}
    /\ upPc = "idle"
    /\ upFiles = <<>>
    /\ upApplied = {}
    /\ upIdx = 0
    /\ upErr = ""
    /\ upRan = <<>>
    /\ upLedger0 = {}
    /\ upRuns = 0
    /\ upPrevClean = FALSE
    /\ lastCall = NoCall
    /\ applied = NoApplied
    /\ recorded = {}
    /\ DiffIdle
    /\ TierIdle
    /\ GenIdle
    /\ ParseIdle
    /\ HIdle
    /\ RIdle
    /\ SIdle
    /\ MdlIdle

\* runUp up to the loop: the glob, the filter, the sort and tracker.GetApplied,
\* which returns an empty map when the read of the client fails
RunUpStart ==
    /\ upPc \in {"idle", "returned"}
    /\ upRuns < MaxRuns
    /\ \E readOk \in BOOLEAN :
        /\ upApplied' = IF readOk THEN LedgerVersions(store) ELSE {}
        /\ applied' = [err |-> "", versions |-> upApplied']
        /\ lastCall' = [op |-> "GetApplied", version |-> "",
                        clientErr |-> IF readOk THEN "" ELSE "failed to read tuples",
                        err |-> ""]
    /\ upFiles' = SortStrings(MigrationFilesOf(upDir))
    /\ upIdx' = 1
    /\ upErr' = ""
    /\ upRan' = <<>>
    /\ upLedger0' = LedgerVersions(store)
    /\ upRuns' = upRuns + 1
    /\ upPrevClean' = (upPc = "returned" /\ upErr = "")
    /\ upPc' = "loop"
    /\ UNCHANGED <<upDir, store, recorded>>
    /\ UNCHANGED <<progVars, restOfUp>>

\* one iteration of the loop of runUp, or its return after the last file;
\* runOk is the outcome of `go run <file> up`, recordOk of tracker.Record
RunUpStep ==
    /\ upPc = "loop"
    /\ IF upIdx > Len(upFiles)
       THEN /\ upPc' = "returned"
            /\ UNCHANGED <<upIdx, upErr, upRan, store, recorded, lastCall>>
       ELSE LET version == extractVersionFromFilename(upFiles[upIdx]) IN
            IF version \in upApplied
            THEN /\ upIdx' = upIdx + 1
                 /\ UNCHANGED <<upPc, upErr, upRan, store, recorded, lastCall>>
            ELSE \E runOk \in BOOLEAN, recordOk \in BOOLEAN :
                    /\ upRan' = Append(upRan, [version |-> version, ok |-> runOk])
                    /\ IF ~runOk
                       THEN /\ upErr' = "migration " \o version \o " failed"
                            /\ upPc' = "returned"
                            /\ UNCHANGED <<upIdx, store, recorded, lastCall>>
                       ELSE IF ~recordOk
                       THEN /\ upErr' = "failed to record migration " \o version
                            /\ upPc' = "returned"
                            /\ lastCall' = [op |-> "Record", version |-> version,
                                            clientErr |-> "write failed", err |-> "write failed"]
                            /\ UNCHANGED <<upIdx, store, recorded>>
                       ELSE /\ store' = store \cup {TrackerTuple(version)}
                            /\ recorded' = recorded \cup {version}
                            /\ lastCall' = [op |-> "Record", version |-> version,
                                            clientErr |-> "", err |-> ""]
                            /\ upIdx' = upIdx + 1
                            /\ UNCHANGED <<upPc, upErr>>
    /\ UNCHANGED <<upDir, upFiles, upApplied, upLedger0, upRuns, upPrevClean, applied>>
    /\ UNCHANGED <<progVars, restOfUp>>

NextUp == RunUpStart \/ RunUpStep

SpecUp == InitUp /\ [][NextUp]_vars

-----------------------------------------------------------------------------
(* The tuple migration helpers (RenameRelation, RenameType,                *)
(* MigrateRelationWithTransform) over the tuples of the service            *)

batchSize == 100

\* Client.readAndFilter: the tuples that match every field the request names
readAndFilter(tuples, req) ==
    {tuple \in tuples :
        /\ req.User # "" => tuple.User = req.User
        /\ req.Relation # "" => tuple.Relation = req.Relation
        /\ req.Object # "" => tuple.Object = req.Object}

\* Client.ReadAllTuples on a successful read
ClientReadAllTuples(tuples, req) ==
    IF req.Object = "" THEN readAndFilter(tuples, req)
    ELSE IF Char(req.Object, Len(req.Object)) = ":" THEN readAndFilterByType(tuples, req)
    ELSE readAndFilter(tuples, req)

\* omg.ReadAllTuples(ctx, client, objectType, relation)
ReadAllTuples(tuples, objectType, relation) ==
    ClientReadAllTuples(tuples,
        ReadTuplesRequest("", relation, IF objectType # "" THEN objectType \o ":" ELSE ""))

\* strings.Replace(s, old, new, 1)
Replace1(s, old, new) ==
    LET i == Index(s, old) IN
    IF i = 0 THEN s
    ELSE SubSeq(s, 1, i - 1) \o new \o SubSeq(s, i + Len(old), Len(s))

\* the slices tuples[i:end] that WriteTuplesBatch and DeleteTuplesBatch send
Batches(tuples) ==
    [b \in 1..((Len(tuples) + batchSize - 1) \div batchSize) |->
        SubSeq(tuples, (b - 1) * batchSize + 1,
               IF b * batchSize > Len(tuples) THEN Len(tuples) ELSE b * batchSize)]

\* the TransformFunc values handed to MigrateRelationWithTransform: the
\* identity, the change of user:<id> to user:uuid-<id>, and a function that
\* fails on the tuples of user:bob
Transforms == {"identity", "uuid", "failing"}

ApplyTransform(transform, tuple) ==
    CASE transform = "uuid" ->
            LET parts == Split(tuple.User, ":") IN
            IF Len(parts) # 2 THEN [err |-> "", tuple |-> tuple]
            ELSE [err |-> "", tuple |-> [tuple EXCEPT !.User = "user:uuid-" \o parts[2]]]
      [] transform = "failing" ->
            IF tuple.User = "user:bob" THEN [err |-> "no such user", tuple |-> tuple]
            ELSE [err |-> "", tuple |-> tuple]
      [] OTHER -> [err |-> "", tuple |-> tuple]

\* the tuples a helper builds from the tuples it has read
NewTuples(call, tuples) ==
    [i \in DOMAIN tuples |->
        CASE call.op = "RenameRelation" -> [tuples[i] EXCEPT !.Relation = call.to]
          [] call.op = "RenameType" ->
                [tuples[i] EXCEPT !.Object =
                    Replace1(tuples[i].Object, call.from \o ":", call.to \o ":")]
          [] OTHER ->
                LET transformed == ApplyTransform(call.transform, tuples[i]).tuple IN
                IF call.to # "" THEN [transformed EXCEPT !.Relation = call.to]
                ELSE transformed]

\* MigrateRelationWithTransform: the transform fails for one of the tuples
TransformFails(call, tuples) ==
    /\ call.op = "MigrateRelationWithTransform"
    /\ \E i \in DOMAIN tuples : ApplyTransform(call.transform, tuples[i]).err # ""

\* the helper deletes the tuples it has read after writing the new ones
DeletesOld(call) ==
    call.op = "MigrateRelationWithTransform" => (call.from # call.to /\ call.to # "")

\* the relation argument of the read of a helper
ReadRelation(call) == IF call.op = "RenameType" THEN "" ELSE call.from

HelperCall(op, objectType, from, to, transform) ==
    [op |-> op, objectType |-> objectType, from |-> from, to |-> to, transform |-> transform]

HelperTypes == {"team", "organization"}

HelperRelations == {"member", "owner"}

HelperCalls ==
    {HelperCall("RenameType", old, old, new, "") : old \in HelperTypes, new \in HelperTypes}
    \cup {HelperCall("RenameRelation", "team", r1, r2, "") :
            r1 \in HelperRelations, r2 \in HelperRelations}
    \cup {HelperCall("MigrateRelationWithTransform", "team", "member", to, transform) :
            to \in HelperRelations \cup {""}, transform \in Transforms}

\* tuples the store can hold when a helper is called
StoreTuples ==
    {Tuple("user:anne", "member", "team:1"),
     Tuple("user:bob", "member", "team:1"),
     Tuple("user:anne", "owner", "team:2"),
     Tuple("user:anne", "member", "organization:1"),
     Tuple("user:anne", "viewer", "document:1")}

InitHelper ==
    /\ store \in SUBSET StoreTuples
    /\ lastCall = NoCall
    /\ applied = NoApplied
    /\ recorded = {}
    /\ HIdle
    /\ RIdle
    /\ UpIdle
    /\ DiffIdle
    /\ TierIdle
    /\ GenIdle
    /\ ParseIdle
    /\ SIdle
    /\ MdlIdle

\* a helper is called: it reads the tuples, in the order the service returns
\* them, and builds the new tuples
RunHelperRead ==
    /\ hPc = "idle"
    /\ \E call \in HelperCalls, readOk \in BOOLEAN :
        /\ hCall' = call
        /\ hStore0' = store
        /\ IF ~readOk
           THEN /\ hErr' = "failed to read tuples"
                /\ hPc' = "returned"
                /\ UNCHANGED <<hOld, hNew, hBatch>>
           ELSE \E tuples \in Perms(ReadAllTuples(store, call.objectType, ReadRelation(call))) :
                    IF Len(tuples) = 0
                    THEN /\ hPc' = "returned"
                         /\ UNCHANGED <<hOld, hNew, hBatch, hErr>>
                    ELSE IF TransformFails(call, tuples)
                    THEN /\ hErr' = "transform failed"
                         /\ hPc' = "returned"
                         /\ hOld' = tuples
                         /\ UNCHANGED <<hNew, hBatch>>
                    ELSE /\ hOld' = tuples
                         /\ hNew' = NewTuples(call, tuples)
                         /\ hBatch' = 1
                         /\ hPc' = "write"
                         /\ UNCHANGED hErr
    /\ UNCHANGED trackVars
    /\ UNCHANGED <<progVars, restOfH>>

\* one request of WriteTuplesBatch: client.WriteTuples of a batch, which the
\* service accepts as a whole or rejects
RunHelperWriteBatch ==
    /\ hPc = "write"
    /\ \E ok \in BOOLEAN :
        IF ~ok
        THEN /\ hErr' = "failed to write new tuples"
             /\ hPc' = "returned"
             /\ UNCHANGED <<store, hBatch>>
        ELSE /\ store' = store \cup Range(Batches(hNew)[hBatch])
             /\ IF hBatch < Len(Batches(hNew))
                THEN hBatch' = hBatch + 1 /\ UNCHANGED hPc
                ELSE /\ hBatch' = 1
                     /\ hPc' = IF DeletesOld(hCall) THEN "delete" ELSE "returned"
             /\ UNCHANGED hErr
    /\ UNCHANGED <<hCall, hOld, hNew, hStore0>>
    /\ UNCHANGED <<lastCall, applied, recorded>>
    /\ UNCHANGED <<progVars, restOfH>>

\* one request of DeleteTuplesBatch: client.DeleteTuples of a batch
RunHelperDeleteBatch ==
    /\ hPc = "delete"
    /\ \E ok \in BOOLEAN :
        IF ~ok
        THEN /\ hErr' = "failed to delete old tuples"
             /\ hPc' = "returned"
             /\ UNCHANGED <<store, hBatch>>
        ELSE /\ store' = store \ Range(Batches(hOld)[hBatch])
             /\ IF hBatch < Len(Batches(hOld))
                THEN hBatch' = hBatch + 1 /\ UNCHANGED hPc
                ELSE hPc' = "returned" /\ UNCHANGED hBatch
             /\ UNCHANGED hErr
    /\ UNCHANGED <<hCall, hOld, hNew, hStore0>>
    /\ UNCHANGED <<lastCall, applied, recorded>>
    /\ UNCHANGED <<progVars, restOfH>>

NextHelper == RunHelperRead \/ RunHelperWriteBatch \/ RunHelperDeleteBatch

SpecHelper == InitHelper /\ [][NextHelper]_vars

-----------------------------------------------------------------------------
(* The registry of migrations: Register, GetAll, Reset                      *)

MaxRegistered == 3

Migration(version, name) == [Version |-> version, Name |-> name]

\* migrations a program registers; two of them have the same version
Migrations ==
    {Migration("001", "init"), Migration("002", "add_team"),
     Migration("002", "add_owner")}

\* the outcomes of sort.Slice by Version, which is not stable
SortedByVersion(slice) ==
    {[i \in DOMAIN slice |-> slice[p[i]]] : p \in
        {q \in Perms(DOMAIN slice) :
            \A i \in 1..(Len(slice) - 1) :
                ~StrGreater(slice[q[i]].Version, slice[q[i + 1]].Version)}}

InitRegistry ==
    /\ RIdle
    /\ store = {}
    /\ lastCall = NoCall
    /\ applied = NoApplied
    /\ recorded = {}
    /\ HIdle
    /\ UpIdle
    /\ DiffIdle
    /\ TierIdle
    /\ GenIdle
    /\ ParseIdle
    /\ SIdle
    /\ MdlIdle

\* Register(m)
RunRegister ==
    /\ Len(migrations) < MaxRegistered
    /\ \E m \in Migrations :
        /\ migrations' = Append(migrations, m)
        /\ regSince' = Append(regSince, m)
    /\ regOp' = "Register"
    /\ regBefore' = migrations
    /\ UNCHANGED <<regSorted, regShares>>
    /\ UNCHANGED trackVars
    /\ UNCHANGED <<progVars, restOfR>>

\* Reset()
RunReset ==
    /\ migrations' = <<>>
    /\ regSince' = <<>>
    /\ regOp' = "Reset"
    /\ regBefore' = migrations
    /\ UNCHANGED <<regSorted, regShares>>
    /\ UNCHANGED trackVars
    /\ UNCHANGED <<progVars, restOfR>>

\* GetAll() with the registry regSorted in place and returned, without the copy
RunGetAll_InPlace ==
    /\ \E slice \in SortedByVersion(migrations) :
        /\ regSorted' = slice
        /\ migrations' = slice
    /\ regShares' = TRUE
    /\ regOp' = "GetAll"
    /\ regBefore' = migrations
    /\ UNCHANGED regSince
    /\ UNCHANGED trackVars
    /\ UNCHANGED <<progVars, restOfR>>

\* GetAll(): a new slice, the copy, the sort of the copy
RunGetAll ==
    /\ regSorted' \in SortedByVersion(migrations)
    /\ regShares' = FALSE
    /\ regOp' = "GetAll"
    /\ regBefore' = migrations
    /\ UNCHANGED <<migrations, regSince>>
    /\ UNCHANGED trackVars
    /\ UNCHANGED <<progVars, restOfR>>

\* the caller of GetAll writes to the slice it got: all[i].Name = "modified";
\* the write reaches the registry when the two share their array
RunModifyReturned ==
    /\ \E i \in DOMAIN regSorted :
        /\ regSorted[i].Name # "modified"
        /\ regSorted' = [regSorted EXCEPT ![i].Name = "modified"]
        /\ migrations' = IF regShares /\ i \in DOMAIN migrations
                         THEN [migrations EXCEPT ![i].Name = "modified"]
                         ELSE migrations
    /\ regOp' = "Modify"
    /\ regBefore' = migrations
    /\ UNCHANGED <<regSince, regShares>>
    /\ UNCHANGED trackVars
    /\ UNCHANGED <<progVars, restOfR>>

NextRegistry == RunRegister \/ RunReset \/ RunGetAll \/ RunModifyReturned

SpecRegistry == InitRegistry /\ [][NextRegistry]_vars

-----------------------------------------------------------------------------
(* sortRelationChanges on lists of AddRelation changes                      *)

\* deps of sortRelationChanges: for every key, how often each key occurs in
\* its fullDeps
DependencyGraph(changes_) ==
    LET keys == {ChangeKey(changes_[i]) : i \in DOMAIN changes_}
        Last(key) == CHOOSE i \in DOMAIN changes_ :
                        /\ ChangeKey(changes_[i]) = key
                        /\ \A j \in DOMAIN changes_ : ChangeKey(changes_[j]) = key => j <= i
        relations == [key \in keys |-> changes_[Last(key)].NewValue]
    IN [key \in keys |-> FullDeps(key, relations)]

\* AddRelation changes with tuple-to-userset definitions in both syntaxes,
\* and the relations they can depend on
SortChangeUniverse ==
    { AddRelationChange("document", "viewer", "viewer from parent"),
      AddRelationChange("document", "editor", "parent->viewer"),
      AddRelationChange("parent", "viewer", "[user]"),
      AddRelationChange("folder", "owner", "[user]"),
      AddRelationChange("folder", "viewer", "[user] or owner") }

SortChangeLists ==
    UNION {{s \in [1..n -> SortChangeUniverse] : \A i, j \in 1..n : s[i] = s[j] => i = j} :
            n \in 0..MaxChanges}

InitSort ==
    /\ srtChanges \in SortChangeLists
    /\ srtDeps = <<>>
    /\ srtSorted = <<>>
    /\ srtPc = "called"
    /\ DiffIdle
    /\ TierIdle
    /\ GenIdle
    /\ ParseIdle
    /\ TrackIdle
    /\ UpIdle
    /\ HIdle
    /\ RIdle
    /\ MdlIdle

\* sorted := sortRelationChanges(relationChanges)
RunSortRelationChanges ==
    /\ srtPc = "called"
    /\ srtDeps' = DependencyGraph(srtChanges)
    /\ srtSorted' \in sortRelationChanges(srtChanges)
    /\ srtPc' = "returned"
    /\ UNCHANGED srtChanges
    /\ UNCHANGED trackVars
    /\ UNCHANGED <<progVars, restOfS>>

NextSort == RunSortRelationChanges

SpecSort == InitSort /\ [][NextSort]_vars

-----------------------------------------------------------------------------
(* The model helpers (AddTypeToModel, AddRelationToType,                    *)
(* RemoveRelationFromType, RemoveTypeFromModel, UpdateRelationDefinition)   *)
(* on the authorization model of the service                                *)

\* strings.Join(parts, sep)
JoinStrings(parts, sep) ==
    LET F[i \in 0..Len(parts)] ==
            IF i = 0 THEN ""
            ELSE F[i - 1] \o (IF i > 1 THEN sep ELSE "") \o parts[i]
    IN F[Len(parts)]

\* type or type#relation of a RelationReference
FormatReference(tr) ==
    IF tr.Relation # "" THEN tr.Type \o "#" \o tr.Relation ELSE tr.Type

RECURSIVE formatUsersetWithMetadata(_, _)
formatUsersetWithMetadata(userset, typeRestrictions) ==
    LET FormatChildren(children) ==
            [i \in DOMAIN children |-> formatUsersetWithMetadata(children[i], <<>>)]
    IN
    CASE userset.k = "this" ->
            IF Len(typeRestrictions) > 0
            THEN "[" \o JoinStrings([i \in DOMAIN typeRestrictions |->
                                        FormatReference(typeRestrictions[i])], ", ") \o "]"
            ELSE "[user]"
      [] userset.k = "computedUserset" -> userset.relation
      [] userset.k = "tupleToUserset" -> userset.computedUserset \o " from " \o userset.tupleset
      [] userset.k = "union" -> JoinStrings(FormatChildren(userset.child), " or ")
      [] userset.k = "intersection" -> JoinStrings(FormatChildren(userset.child), " and ")
      [] userset.k = "difference" ->
            formatUsersetWithMetadata(userset.base, <<>>) \o " but not "
                \o formatUsersetWithMetadata(userset.subtract, <<>>)
      [] OTHER -> "[unknown]"

formatUserset(userset) == formatUsersetWithMetadata(userset, <<>>)

\* the text formatModelAsDSL writes for one type, its relations visited in
\* the order relOrder
FormatType(typeDef, relOrder) ==
    LET Define(relName) ==
            "    define " \o relName \o ": "
                \o formatUsersetWithMetadata(typeDef.Relations[relName],
                        IF relName \in DOMAIN typeDef.Metadata
                        THEN typeDef.Metadata[relName] ELSE <<>>)
                \o "\n"
    IN "type " \o typeDef.Type \o "\n"
        \o (IF Len(relOrder) > 0
            THEN "  relations\n" \o JoinStrings([i \in DOMAIN relOrder |-> Define(relOrder[i])], "")
            ELSE "")
        \o "\n"

\* every text formatModelAsDSL can return, over the iteration orders of the
\* relation maps
RECURSIVE FormatTypes(_)
FormatTypes(typeDefinitions) ==
    IF typeDefinitions = <<>> THEN {""}
    ELSE {first \o rest :
            first \in {FormatType(Head(typeDefinitions), relOrder) :
                        relOrder \in Perms(DOMAIN Head(typeDefinitions).Relations)},
            rest \in FormatTypes(Tail(typeDefinitions))}

formatModelAsDSL(model) ==
    {(IF model.SchemaVersion # ""
      THEN "model\n  schema " \o model.SchemaVersion \o "\n\n" ELSE "") \o types :
        types \in FormatTypes(model.TypeDefinitions)}

\* index of the first type definition named typeName, 0 when there is none
TypeIndex(typeDefinitions, typeName) ==
    IF \E i \in DOMAIN typeDefinitions : typeDefinitions[i].Type = typeName
    THEN CHOOSE i \in DOMAIN typeDefinitions :
            /\ typeDefinitions[i].Type = typeName
            /\ \A j \in 1..(i - 1) : typeDefinitions[j].Type # typeName
    ELSE 0

\* a map without the key k
WithoutKey(f, k) == [x \in DOMAIN f \ {k} |-> f[x]]

ModelResult(err, typeDefinitions) == [err |-> err, TypeDefinitions |-> typeDefinitions]

\* the model AddTypeToModel hands to WriteAuthorizationModel, or its error
AddTypeToModel(typeDefinitions, typeName, relations) ==
    LET parsed == [relName \in DOMAIN relations |-> parseRelationDefinition(relations[relName])]
    IN IF TypeIndex(typeDefinitions, typeName) # 0
       THEN ModelResult("type already exists", typeDefinitions)
       ELSE IF \E relName \in DOMAIN relations : parsed[relName].err # ""
       THEN ModelResult("failed to parse relation", typeDefinitions)
       ELSE ModelResult("", Append(typeDefinitions,
                TypeDefinition(typeName,
                    [relName \in DOMAIN relations |-> parsed[relName].userset], NoMap)))

AddRelationToType(typeDefinitions, typeName, relationName, relationDef) ==
    LET i == TypeIndex(typeDefinitions, typeName)
        parsed == parseRelationDefinition(relationDef)
        typeRestrictions == extractTypeRestrictions(relationDef)
        isDirect == Contains(relationDef, "[")
    IN IF i = 0 THEN ModelResult("type not found", typeDefinitions)
       ELSE IF relationName \in DOMAIN typeDefinitions[i].Relations
       THEN ModelResult("relation already exists", typeDefinitions)
       ELSE IF parsed.err # ""
       THEN ModelResult("failed to parse relation definition", typeDefinitions)
       ELSE ModelResult("",
                [typeDefinitions EXCEPT
                    ![i].Relations = (relationName :> parsed.userset) @@ @,
                    ![i].Metadata = IF Len(typeRestrictions) > 0 /\ isDirect
                                    THEN (relationName :> typeRestrictions) @@ @
                                    ELSE @])

RemoveRelationFromType(typeDefinitions, typeName, relationName) ==
    LET i == TypeIndex(typeDefinitions, typeName) IN
    IF i = 0 THEN ModelResult("type not found", typeDefinitions)
    ELSE IF relationName \notin DOMAIN typeDefinitions[i].Relations
    THEN ModelResult("relation not found", typeDefinitions)
    ELSE ModelResult("",
            [typeDefinitions EXCEPT ![i].Relations = WithoutKey(@, relationName)])

RemoveTypeFromModel(typeDefinitions, typeName) ==
    IF TypeIndex(typeDefinitions, typeName) = 0
    THEN ModelResult("type not found", typeDefinitions)
    ELSE ModelResult("", SelectSeq(typeDefinitions, LAMBDA t : t.Type # typeName))

UpdateRelationDefinition(typeDefinitions, typeName, relationName, newDefinition) ==
    LET i == TypeIndex(typeDefinitions, typeName)
        parsed == parseRelationDefinition(newDefinition)
    IN IF i = 0 THEN ModelResult("type not found", typeDefinitions)
       ELSE IF relationName \notin DOMAIN typeDefinitions[i].Relations
       THEN ModelResult("relation not found", typeDefinitions)
       ELSE IF parsed.err # ""
       THEN ModelResult("failed to parse new relation definition", typeDefinitions)
       ELSE ModelResult("",
                [typeDefinitions EXCEPT ![i].Relations = (relationName :> parsed.userset) @@ @])

\* what a helper makes of the model it parsed
ApplyModelCall(call, typeDefinitions) ==
    CASE call.op = "AddTypeToModel" ->
            AddTypeToModel(typeDefinitions, call.typeName, call.relations)
      [] call.op = "AddRelationToType" ->
            AddRelationToType(typeDefinitions, call.typeName, call.relationName, call.def)
      [] call.op = "RemoveRelationFromType" ->
            RemoveRelationFromType(typeDefinitions, call.typeName, call.relationName)
      [] call.op = "RemoveTypeFromModel" ->
            RemoveTypeFromModel(typeDefinitions, call.typeName)
      [] OTHER ->
            UpdateRelationDefinition(typeDefinitions, call.typeName, call.relationName, call.def)

MdlCall(op, typeName, relationName, def, relations) ==
    [op |-> op, typeName |-> typeName, relationName |-> relationName, def |-> def,
     relations |-> relations]

MdlCalls ==
    {MdlCall("AddTypeToModel", typeName, "", "", relations) :
        typeName \in {"folder", "document"},
        relations \in {NoMap, "owner" :> "[user]"}}
    \cup {MdlCall("AddRelationToType", typeName, relationName, def, NoMap) :
            typeName \in {"document", "group"}, relationName \in {"editor", "owner"},
            def \in {"[user]", "(owner)"}}
    \cup {MdlCall("RemoveRelationFromType", "document", relationName, "", NoMap) :
            relationName \in {"owner", "editor"}}
    \cup {MdlCall("RemoveTypeFromModel", typeName, "", "", NoMap) :
            typeName \in {"group", "folder"}}
    \cup {MdlCall("UpdateRelationDefinition", "document", relationName, "[user, group#member]", NoMap) :
            relationName \in {"owner", "editor"}}

UserRef == RelationReference("user", "")

GroupMemberRef == RelationReference("group", "member")

\* type definitions as the service holds them: every relation with a direct
\* part has its directly related user types
SvcUser == TypeDefinition("user", NoMap, NoMap)

SvcGroup == TypeDefinition("group", "member" :> This, "member" :> <<UserRef>>)

SvcDocuments ==
    { TypeDefinition("document", "owner" :> This, "owner" :> <<UserRef>>),
      TypeDefinition("document", "owner" :> This, "owner" :> <<UserRef, GroupMemberRef>>),
      TypeDefinition("document",
            ("owner" :> This) @@ ("viewer" :> Union(<<This, Computed("owner")>>)),
            ("owner" :> <<UserRef>>) @@ ("viewer" :> <<GroupMemberRef>>)),
      TypeDefinition("document",
            ("viewer" :> TupleToUserset("parent", "owner")) @@ ("parent" :> This),
            "parent" :> <<RelationReference("document", "")>>) }

SvcModels ==
    {[SchemaVersion |-> "1.1", TypeDefinitions |-> <<SvcUser>> \o group \o document] :
        group \in {<<>>, <<SvcGroup>>},
        document \in {<<>>} \cup {<<d>> : d \in SvcDocuments}}

InitModelHelper ==
    /\ svcModel \in SvcModels
    /\ mdlCall = NoMdlCall
    /\ mdlPc = "idle"
    /\ mdlErr = ""
    /\ mdlCurrent = NoModel
    /\ mdlRead = NoSvcModel
    /\ mdlWritten = FALSE
    /\ DiffIdle
    /\ TierIdle
    /\ GenIdle
    /\ ParseIdle
    /\ TrackIdle
    /\ UpIdle
    /\ HIdle
    /\ RIdle
    /\ SIdle

\* the first part of every model helper: client.GetCurrentModel, which
\* formats the model of the service, and parseDSLToModel
RunModelHelperRead ==
    /\ mdlPc = "idle"
    /\ \E getOk \in BOOLEAN :
        IF ~getOk
        THEN /\ mdlErr' = "failed to get current model"
             /\ mdlPc' = "returned"
             /\ UNCHANGED mdlCurrent
        ELSE /\ \E currentDSL \in formatModelAsDSL(svcModel) :
                    mdlCurrent' = parseDSLToModel(currentDSL)
             /\ mdlErr' = IF mdlCurrent'.err # "" THEN "failed to parse current model" ELSE ""
             /\ mdlPc' = IF mdlCurrent'.err # "" THEN "returned" ELSE "parsed"
    /\ mdlRead' = svcModel
    /\ UNCHANGED <<svcModel, mdlCall, mdlWritten>>
    /\ UNCHANGED trackVars
    /\ UNCHANGED <<progVars, restOfMdl>>

\* the second part, with the arguments of the call: the change of
\* currentModel and client.WriteAuthorizationModel
RunModelHelperWrite ==
    /\ mdlPc = "parsed"
    /\ \E call \in MdlCalls, writeOk \in BOOLEAN :
        LET result == ApplyModelCall(call, mdlCurrent.TypeDefinitions) IN
        /\ mdlCall' = call
        /\ IF result.err # ""
           THEN /\ mdlErr' = result.err
                /\ UNCHANGED <<svcModel, mdlWritten>>
           ELSE IF ~writeOk
           THEN /\ mdlErr' = "failed to write model"
                /\ UNCHANGED <<svcModel, mdlWritten>>
           ELSE /\ svcModel' = [SchemaVersion |-> mdlCurrent.SchemaVersion,
                                TypeDefinitions |-> result.TypeDefinitions]
                /\ mdlWritten' = TRUE
                /\ UNCHANGED mdlErr
    /\ mdlPc' = "returned"
    /\ UNCHANGED <<mdlCurrent, mdlRead>>
    /\ UNCHANGED trackVars
    /\ UNCHANGED <<progVars, restOfMdl>>

NextModelHelper == RunModelHelperRead \/ RunModelHelperWrite

SpecModelHelper == InitModelHelper /\ [][NextModelHelper]_vars

-----------------------------------------------------------------------------
(* Helpers of the properties                                               *)

CountIn(seq, P(_)) == Cardinality({i \in DOMAIN seq : P(seq[i])})

IsRename(c) == c.Type \in {ChangeTypeRenameType, ChangeTypeRenameRelation}

IsRemoval(c) == c.Type \in {ChangeTypeRemoveType, ChangeTypeRemoveRelation}

IsAddition(c) == c.Type \in {ChangeTypeAddType, ChangeTypeAddRelation}

\* rename rn stands for the removal or addition c
Consumes(rn, c) ==
    \/ /\ rn.Type = ChangeTypeRenameType
       /\ \/ c.Type = ChangeTypeRemoveType /\ c.TypeName = rn.OldValue
          \/ c.Type = ChangeTypeAddType /\ c.TypeName = rn.NewValue
    \/ /\ rn.Type = ChangeTypeRenameRelation
       /\ c.TypeName = rn.TypeName
       /\ \/ c.Type = ChangeTypeRemoveRelation /\ c.RelationName = rn.OldValue
          \/ c.Type = ChangeTypeAddRelation /\ c.RelationName = rn.NewValue

\* C1: DetectPotentialRenames conserves changes.  Every change of the input
\* appears unchanged exactly once in the output or is consumed by exactly one
\* rename; a rename pairs exactly one removal with one addition of its
\* granularity; nothing else is in the output; hence
\* len(output) = len(input) - number of renames.
C1_RenamesConserveChanges ==
    pc = "enhanced" =>
        /\ \A i \in DOMAIN changes :
              CountIn(enhanced, LAMBDA e : e = changes[i])
                + CountIn(enhanced, LAMBDA e : Consumes(e, changes[i])) = 1
        /\ \A i \in DOMAIN enhanced :
              IF IsRename(enhanced[i])
              THEN /\ CountIn(changes, LAMBDA c : IsRemoval(c) /\ Consumes(enhanced[i], c)) = 1
                   /\ CountIn(changes, LAMBDA c : IsAddition(c) /\ Consumes(enhanced[i], c)) = 1
              ELSE enhanced[i] \in Range(changes)
        /\ Len(enhanced) = Len(changes) - CountIn(enhanced, IsRename)

\* a run with a type rename and a relation rename, and a change passed through
C1_Witness ==
    /\ pc = "enhanced"
    /\ \E i \in DOMAIN enhanced : enhanced[i].Type = ChangeTypeRenameType
    /\ \E i \in DOMAIN enhanced : enhanced[i].Type = ChangeTypeRenameRelation
    /\ \E i \in DOMAIN enhanced : enhanced[i] \in Range(changes)

\* C2: DetectChanges returns exactly one AddType per type only in new, one
\* RemoveType per type only in old and, for the types in both, one AddRelation
\* (NewValue = new definition) per relation only in new, one RemoveRelation
\* (OldValue = old definition) per relation only in old and one UpdateRelation
\* (OldValue/NewValue = the definitions) per relation whose definitions
\* differ; nothing else, so identical states give the empty list.
C2_DetectChangesExact ==
    pc \in {"detected", "enhanced"} =>
        LET old == oldState.Types
            new == newState.Types
            Expected(c) ==
                CASE c.Type = ChangeTypeAddType ->
                        c.TypeName \in DOMAIN new /\ c.TypeName \notin DOMAIN old
                  [] c.Type = ChangeTypeRemoveType ->
                        c.TypeName \in DOMAIN old /\ c.TypeName \notin DOMAIN new
                  [] c.Type = ChangeTypeAddRelation ->
                        /\ c.TypeName \in DOMAIN old /\ c.TypeName \in DOMAIN new
                        /\ c.RelationName \in DOMAIN new[c.TypeName].Relations
                        /\ c.RelationName \notin DOMAIN old[c.TypeName].Relations
                        /\ c.NewValue = new[c.TypeName].Relations[c.RelationName]
                  [] c.Type = ChangeTypeRemoveRelation ->
                        /\ c.TypeName \in DOMAIN old /\ c.TypeName \in DOMAIN new
                        /\ c.RelationName \in DOMAIN old[c.TypeName].Relations
                        /\ c.RelationName \notin DOMAIN new[c.TypeName].Relations
                        /\ c.OldValue = old[c.TypeName].Relations[c.RelationName]
                  [] c.Type = ChangeTypeUpdateRelation ->
                        /\ c.TypeName \in DOMAIN old /\ c.TypeName \in DOMAIN new
                        /\ c.RelationName \in DOMAIN old[c.TypeName].Relations
                        /\ c.RelationName \in DOMAIN new[c.TypeName].Relations
                        /\ c.OldValue = old[c.TypeName].Relations[c.RelationName]
                        /\ c.NewValue = new[c.TypeName].Relations[c.RelationName]
                        /\ c.OldValue # c.NewValue
                  [] OTHER -> FALSE
            Key(c) == <<c.Type, c.TypeName, c.RelationName>>
            typeDiff == (DOMAIN old \ DOMAIN new) \cup (DOMAIN new \ DOMAIN old)
            relDiff == {<<t, r>> \in (DOMAIN old \cap DOMAIN new) \X RelNames :
                            \/ r \in DOMAIN old[t].Relations /\ r \notin DOMAIN new[t].Relations
                            \/ r \notin DOMAIN old[t].Relations /\ r \in DOMAIN new[t].Relations
                            \/ /\ r \in DOMAIN old[t].Relations
                               /\ r \in DOMAIN new[t].Relations
                               /\ old[t].Relations[r] # new[t].Relations[r]}
        IN /\ \A i \in DOMAIN changes : Expected(changes[i])
           /\ \A i, j \in DOMAIN changes : Key(changes[i]) = Key(changes[j]) => i = j
           /\ Len(changes) = Cardinality(typeDiff) + Cardinality(relDiff)
           /\ (oldState = newState => changes = <<>>)

\* a diff that holds a change of each of the five kinds
C2_Witness ==
    /\ pc = "detected"
    /\ \A k \in {ChangeTypeAddType, ChangeTypeRemoveType, ChangeTypeAddRelation,
                 ChangeTypeRemoveRelation, ChangeTypeUpdateRelation} :
            \E i \in DOMAIN changes : changes[i].Type = k

\* the order None < Low < Medium < High of the confidence tiers
TierRank(conf) ==
    CASE conf = ConfidenceHigh -> 3
      [] conf = ConfidenceMedium -> 2
      [] conf = ConfidenceLow -> 1
      [] OTHER -> 0

\* Pairing of the removals (in the order they are examined) with the additions
\* as the best-candidate rule prescribes it.  Sim(r, a) and Tier(r, a) score the
\* candidate a for the removal r; PairOf(r) is the addition the output pairs r
\* with, or "" when r is passed through.
BestCandidateRule(removals, additions, Sim(_, _), Tier(_, _), PairOf(_)) ==
    \A i \in DOMAIN removals :
        LET taken == {PairOf(removals[j]) : j \in 1..(i - 1)}
            cands == {a \in additions \ taken : Tier(removals[i], a) # ConfidenceNone}
            got == PairOf(removals[i])
        IN IF cands = {} THEN got = ""
           ELSE /\ got \in cands
                /\ \A a \in cands :
                      \/ TierRank(Tier(removals[i], got)) > TierRank(Tier(removals[i], a))
                      \/ /\ TierRank(Tier(removals[i], got)) = TierRank(Tier(removals[i], a))
                         /\ ~ScoreGT(Sim(removals[i], a), Sim(removals[i], got))

TypeTier(r, a) ==
    determineRenameConfidence(calculateSimilarity(r, a),
                              haveSimilarRelations(oldState.Types[r], newState.Types[a]))

RelationTier(r, a) == determineRenameConfidence(calculateSimilarity(r, a), Zero)

\* the new name the output gives to the removed type r, "" if none
TypePairOf(r) ==
    LET rn == {i \in DOMAIN enhanced :
                    enhanced[i].Type = ChangeTypeRenameType /\ enhanced[i].OldValue = r}
    IN IF rn = {} THEN "" ELSE enhanced[CHOOSE i \in rn : TRUE].NewValue

RelationPairOf(t, r) ==
    LET rn == {i \in DOMAIN enhanced :
                    /\ enhanced[i].Type = ChangeTypeRenameRelation
                    /\ enhanced[i].TypeName = t
                    /\ enhanced[i].OldValue = r}
    IN IF rn = {} THEN "" ELSE enhanced[CHOOSE i \in rn : TRUE].NewValue

\* C3: in both passes every removal is paired with a not-yet-matched candidate
\* of the highest tier (None < Low < Medium < High), ties broken by the
\* higher nameSimilarity, and is left unpaired only if every remaining
\* candidate has tier None.
C3_BestCandidateChosen ==
    pc = "enhanced" =>
        /\ BestCandidateRule(
                MapSeq(OfType(changes, ChangeTypeRemoveType), LAMBDA c : c.TypeName),
                {c.TypeName : c \in {x \in Range(changes) : x.Type = ChangeTypeAddType}},
                calculateSimilarity, TypeTier, TypePairOf)
        /\ \A t \in RelationGroupKeys(changes) :
              BestCandidateRule(
                MapSeq(SelectSeq(changes, LAMBDA c :
                            c.Type = ChangeTypeRemoveRelation /\ c.TypeName = t),
                       LAMBDA c : c.RelationName),
                {c.RelationName : c \in {x \in Range(changes) :
                            x.Type = ChangeTypeAddRelation /\ x.TypeName = t}},
                calculateSimilarity, RelationTier, LAMBDA r : RelationPairOf(t, r))

\* The tier rule of the claim, as a relation between two scores and a tier
TierRule(n, r, conf) ==
    LET high == ScoreGE(n, 70, 100) \/ (ScoreGE(n, 40, 100) /\ ScoreGE(r, 70, 100))
        medium == ScoreGE(n, 30, 100) \/ ScoreGE(r, 70, 100)
        low == ScoreGE(n, 20, 100) \/ ScoreGE(r, 50, 100)
    IN /\ conf = ConfidenceHigh <=> high
       /\ conf = ConfidenceMedium <=> ~high /\ medium
       /\ conf = ConfidenceLow <=> ~high /\ ~medium /\ low
       /\ conf = ConfidenceNone <=> ~high /\ ~medium /\ ~low

TeamOwnerMember == [t \in {"team"} |-> [r \in {"owner", "member"} |-> This]]
TeamsOwnerMember == [t \in {"teams"} |-> [r \in {"owner", "member"} |-> This]]
OrganizationOwnerMember == [t \in {"organization"} |-> [r \in {"owner", "member"} |-> This]]

\* the output is a single RenameType old -> new of the given tier
SingleTypeRename(old, new, conf) ==
    /\ Len(enhanced) = 1
    /\ enhanced[1].Type = ChangeTypeRenameType
    /\ enhanced[1].OldValue = old
    /\ enhanced[1].NewValue = new
    /\ enhanced[1].Confidence = conf

-----------------------------------------------------------------------------
(* Generated code: helpers of the properties                               *)

\* what a generated statement does to the store when it runs
\* (DeleteRelation reads the tuples of the relation and batch-deletes them)
StoreSteps(item) ==
    CASE item.k # "call" -> <<>>
      [] item.op = "omg.ReadAllTuples" -> <<"read">>
      [] item.op = "omg.DeleteTuplesBatch" -> <<"delete">>
      [] item.op = "omg.DeleteRelation" -> <<"read", "delete">>
      [] item.op \in {"omg.RemoveRelationFromType", "omg.RemoveTypeFromModel"} -> <<"remove">>
      [] OTHER -> <<>>

\* the active calls on the omg package of a block, in order
ActiveCalls(block) == SelectSeq(block, LAMBDA item : item.k = "call" /\ HasPrefix(item.op, "omg."))

CommentedCalls(block) == SelectSeq(block, LAMBDA item : item.k = "commented")

HasComment(block, words) ==
    \E i \in DOMAIN block : block[i].k = "comment" /\ Contains(block[i].text, words)

\* the operations a block names, active or commented out
OpsOf(block) == {block[i].op : i \in {j \in DOMAIN block : block[j].k \in {"call", "commented"}}}

\* the change kind an up block was generated for
KindOfUpBlock(block) ==
    CASE "omg.AddTypeToModel" \in OpsOf(block) -> ChangeTypeAddType
      [] "omg.AddRelationToType" \in OpsOf(block) -> ChangeTypeAddRelation
      [] "omg.UpdateRelationDefinition" \in OpsOf(block) -> ChangeTypeUpdateRelation
      [] "omg.RenameRelation" \in OpsOf(block) -> ChangeTypeRenameRelation
      [] "omg.RenameType" \in OpsOf(block) -> ChangeTypeRenameType
      [] "omg.RemoveRelationFromType" \in OpsOf(block) -> ChangeTypeRemoveRelation
      [] "omg.RemoveTypeFromModel" \in OpsOf(block) -> ChangeTypeRemoveType
      [] OTHER -> "none"

\* place of a change kind in the forward order
KindRank(kind) ==
    CASE kind = ChangeTypeAddType -> 1
      [] kind = ChangeTypeAddRelation -> 2
      [] kind = ChangeTypeUpdateRelation -> 3
      [] kind = ChangeTypeRenameRelation -> 4
      [] kind = ChangeTypeRenameType -> 5
      [] kind = ChangeTypeRemoveRelation -> 6
      [] kind = ChangeTypeRemoveType -> 7
      [] OTHER -> 0

AllKinds ==
    {ChangeTypeAddType, ChangeTypeAddRelation, ChangeTypeUpdateRelation,
     ChangeTypeRenameRelation, ChangeTypeRenameType, ChangeTypeRemoveRelation,
     ChangeTypeRemoveType}

\* the changes of a kind that get a block: all of them, and one per
\* (type, relation) pair for AddRelation
BlocksDue(changes_, kind) ==
    IF kind = ChangeTypeAddRelation
    THEN Cardinality({ChangeKey(c) : c \in Range(OfType(changes_, kind))})
    ELSE Len(OfType(changes_, kind))

-----------------------------------------------------------------------------
-----------------------------------------------------------------------------
\* the relation names the definitions of the generated lists can refer to
GenRelNames == {"owner", "editor", "viewer"}

\* change a's definition names the relation of change b, a relation of a's own type
References(a, b) ==
    /\ a.TypeName = b.TypeName
    /\ a.RelationName # b.RelationName
    /\ b.RelationName \in GenRelNames
    /\ Contains(a.NewValue, b.RelationName)

RECURSIVE Closure(_, _)
Closure(R, n) ==
    IF n = 0 THEN R
    ELSE Closure(R \cup {<<x[1][1], x[2][2]>> : x \in {y \in R \X R : y[1][2] = y[2][1]}}, n - 1)

\* the references among the changes of adds contain no cycle
Acyclic(adds) ==
    LET R == {p \in (DOMAIN adds) \X (DOMAIN adds) : References(adds[p[1]], adds[p[2]])}
    IN \A i \in DOMAIN adds : <<i, i>> \notin Closure(R, Len(adds))

\* the places of the up blocks that add relation change.TypeName.change.RelationName
AddBlocksOf(change) ==
    {i \in DOMAIN upCode.blocks :
        \E k \in DOMAIN upCode.blocks[i] :
            /\ upCode.blocks[i][k].k = "call"
            /\ upCode.blocks[i][k].op = "omg.AddRelationToType"
            /\ SubSeq(upCode.blocks[i][k].args, 1, 2) = <<change.TypeName, change.RelationName>>}

DistinctKeys(adds) == \A i, j \in DOMAIN adds : ChangeKey(adds[i]) = ChangeKey(adds[j]) => i = j

(* C6: in the written up function the AddRelation changes are in           *)
(* dependency order: when the changes have different (type, relation)      *)
(* pairs, each has exactly one block, and if the references among them     *)
(* contain no cycle, the block of a relation that a definition names comes *)
(* before the block of that definition, for DSL and serialized definitions.*)
C6_AddRelationsInDependencyOrder ==
    LET adds == OfType(genChanges, ChangeTypeAddRelation) IN
    (gpc = "written" /\ DistinctKeys(adds)) =>
        /\ \A i \in DOMAIN adds : Cardinality(AddBlocksOf(adds[i])) = 1
        /\ Acyclic(adds) =>
                \A i, j \in DOMAIN adds :
                    References(adds[i], adds[j]) =>
                        \A bi \in AddBlocksOf(adds[i]), bj \in AddBlocksOf(adds[j]) : bj < bi

-----------------------------------------------------------------------------
\* the store steps of a block, in the order its statements run
StepsOfBlock(block) ==
    LET Steps[i \in 0..Len(block)] ==
            IF i = 0 THEN <<>> ELSE Steps[i - 1] \o StoreSteps(block[i])
    IN Steps[Len(block)]

(* C7: the up block of every RemoveRelation and every RemoveType change    *)
(* reads the tuples of the relation or type, deletes them and only then    *)
(* removes the relation or type from the schema.                           *)
C7_RemovalReadsDeletesThenRemoves ==
    gpc = "written" =>
        /\ \A kind \in {ChangeTypeRemoveRelation, ChangeTypeRemoveType} :
                CountIn(upCode.blocks, LAMBDA b : KindOfUpBlock(b) = kind)
                    = BlocksDue(genChanges, kind)
        /\ \A i \in DOMAIN upCode.blocks :
                KindOfUpBlock(upCode.blocks[i]) \in {ChangeTypeRemoveRelation, ChangeTypeRemoveType}
                    => StepsOfBlock(upCode.blocks[i]) = <<"read", "delete", "remove">>

-----------------------------------------------------------------------------
\* block names the call op(args), active or commented out
NamesCall(block, op, args) ==
    \E i \in DOMAIN block :
        block[i].k \in {"call", "commented"} /\ block[i].op = op /\ block[i].args = args

\* the active calls of a block as <<operation, arguments>> pairs
ActivePairs(block) ==
    LET calls == ActiveCalls(block) IN [i \in DOMAIN calls |-> <<calls[i].op, calls[i].args>>]

\* block undoes change
IsInverseBlock(change, block) ==
    CASE change.Type = ChangeTypeAddType ->
            ActivePairs(block) = << <<"omg.ReadAllTuples", <<change.TypeName, "">>>>,
                                    <<"omg.DeleteTuplesBatch", <<"tuples">>>>,
                                    <<"omg.RemoveTypeFromModel", <<change.TypeName>>>> >>
      [] change.Type = ChangeTypeAddRelation ->
            /\ NamesCall(block, "omg.RemoveRelationFromType",
                         <<change.TypeName, change.RelationName>>)
            /\ KindOfUpBlock(block) = ChangeTypeRemoveRelation
      [] change.Type = ChangeTypeUpdateRelation ->
            ActivePairs(block) =
                << <<"omg.UpdateRelationDefinition",
                     <<change.TypeName, change.RelationName,
                       ReplaceAll(change.OldValue, "\"", "\\\"")>>>> >>
      [] change.Type = ChangeTypeRenameType ->
            /\ NamesCall(block, "omg.RenameType", <<change.NewValue, change.OldValue>>)
            /\ ~NamesCall(block, "omg.RenameType", <<change.OldValue, change.NewValue>>)
      [] change.Type = ChangeTypeRenameRelation ->
            /\ NamesCall(block, "omg.RenameRelation",
                         <<change.TypeName, change.NewValue, change.OldValue>>)
            /\ ~NamesCall(block, "omg.RenameRelation",
                          <<change.TypeName, change.OldValue, change.NewValue>>)
      [] change.Type \in {ChangeTypeRemoveType, ChangeTypeRemoveRelation} ->
            /\ Len(block) > 0
            /\ \A i \in DOMAIN block : block[i].k = "comment"
      [] OTHER -> FALSE

\* the orders in which changes of a list can have been processed
Orderings(changes_) == UNION {Perms(S) : S \in SUBSET DOMAIN changes_}

(* C8: the written down function has one block per up block, and its       *)
(* blocks are the inverses of the changes of the up blocks taken in        *)
(* exactly the reverse order: the i-th down block undoes the change of the *)
(* i-th up block from the end.                                             *)
C8_DownIsReverseOfUp ==
    gpc = "written" =>
        \E o \in Orderings(genChanges) :
            /\ Len(o) = Len(upCode.blocks)
            /\ \A i \in DOMAIN o : upCode.blocks[i] = UpBlock(genChanges[o[i]])
            /\ Len(downCode.blocks) = Len(o)
            /\ \A i \in DOMAIN o :
                    IsInverseBlock(genChanges[o[Len(o) + 1 - i]], downCode.blocks[i])

-----------------------------------------------------------------------------
IsTieredRename(c) ==
    /\ c.Type \in {ChangeTypeRenameType, ChangeTypeRenameRelation}
    /\ c.Confidence \in {ConfidenceHigh, ConfidenceMedium, ConfidenceLow}

\* the calls of the code shape of rename c from its OldValue to its NewValue,
\* or the other way round when swapped
RenameCalls(c, swapped) ==
    LET from == IF swapped THEN c.NewValue ELSE c.OldValue
        to == IF swapped THEN c.OldValue ELSE c.NewValue
    IN IF c.Type = ChangeTypeRenameType
       THEN [rename |-> <<"omg.RenameType", <<from, to>>>>,
             read |-> <<"omg.ReadAllTuples", <<from, "">>>>,
             remove |-> <<"omg.RemoveTypeFromModel", <<from>>>>]
       ELSE [rename |-> <<"omg.RenameRelation", <<c.TypeName, from, to>>>>,
             read |-> <<"omg.ReadAllTuples", <<c.TypeName, from>>>>,
             remove |-> <<"omg.RemoveRelationFromType", <<c.TypeName, from>>>>]

\* block is the code shape of tier c.Confidence for the rename of c
HasTierShape(block, c, swapped) ==
    LET calls == RenameCalls(c, swapped)
        commented == CommentedCalls(block)
    IN CASE c.Confidence = ConfidenceHigh ->
                /\ ActivePairs(block) = <<calls.rename>>
                /\ commented = <<>>
                /\ HasComment(block, "high confidence")
                /\ ~HasComment(block, "REVIEW REQUIRED")
                /\ ~HasComment(block, "OPTION")
         [] c.Confidence = ConfidenceMedium ->
                /\ ActivePairs(block) = <<calls.rename>>
                /\ commented = <<>>
                /\ HasComment(block, "REVIEW REQUIRED")
                /\ ~HasComment(block, "OPTION 1")
                /\ ~HasComment(block, "OPTION 2")
         [] c.Confidence = ConfidenceLow ->
                /\ Len(commented) = 1
                /\ <<commented[1].op, commented[1].args>> = calls.rename
                /\ \E i \in DOMAIN block :
                        /\ i > 1
                        /\ block[i].k = "commented"
                        /\ block[i - 1].k = "comment"
                        /\ Contains(block[i - 1].text, "OPTION 1")
                /\ ActivePairs(block) =
                        <<calls.read, <<"omg.DeleteTuplesBatch", <<"tuples">>>>, calls.remove>>
         [] OTHER -> FALSE

IsRenameBlock(block) ==
    KindOfUpBlock(block) \in {ChangeTypeRenameType, ChangeTypeRenameRelation}

(* C9: in the written down function every rename of tier High, Medium or  *)
(* Low has one block of that tier's code shape for the swapped rename      *)
(* (NewValue back to OldValue), and no other block names a rename; a Low   *)
(* rename has no active rename call in down.                               *)
C9_DownRenameKeepsTier ==
    gpc = "written" =>
        /\ \A i \in DOMAIN genChanges :
                IsTieredRename(genChanges[i]) =>
                    CountIn(downCode.blocks, LAMBDA b : HasTierShape(b, genChanges[i], TRUE)) = 1
        /\ CountIn(downCode.blocks, IsRenameBlock) = CountIn(genChanges, IsRename)

-----------------------------------------------------------------------------
(* Properties of the parser                                                *)

\* the first form, in the documented order, whose token the definition holds
FirstForm(def) ==
    IF Contains(def, " or ") THEN "or"
    ELSE IF Contains(def, " and ") THEN "and"
    ELSE IF Contains(def, " but not ") THEN "but not"
    ELSE IF HasPrefix(def, "[") /\ HasSuffix(def, "]") THEN "direct"
    ELSE IF Contains(def, " from ") THEN "from"
    ELSE IF Contains(def, "->") THEN "arrow"
    ELSE IF IsIdentifier(def) THEN "computed"
    ELSE "none"

\* the Usersets of the trimmed segments of def around sep, in order
SegmentUsersets(def, sep) ==
    LET parts == Split(def, sep) IN
    [i \in 1..Len(parts) |-> parseRelationDefinition(TrimSpace(parts[i])).userset]

Returned == dpc = "returned"

Failed(res) == res.err # "" /\ res.userset = NoUserset

Succeeded(res) == res.err = "" /\ res.userset # NoUserset

\* C11: parseRelationDefinition tries the forms in the order ' or ', ' and ',
\* ' but not ', bracketed list, ' from ', '->', identifier, and the first form
\* whose token occurs decides the kind of the result: a definition holding
\* ' or ' is a Union of its segments in order (or fails), one holding ' and '
\* but no ' or ' an Intersection, and so on down to a plain identifier, which
\* is a ComputedUserset; a definition matching no form fails with 'unable to
\* parse relation definition'.  'owner or editor' is the Union of
\* ComputedUserset(owner) and ComputedUserset(editor), in that order.
C11_FormsTriedInOrder ==
    Returned =>
        LET def == parseDef
            res == parseRes
            form == FirstForm(def)
        IN /\ Failed(res) \/ Succeeded(res)
           /\ (form = "or" /\ Succeeded(res)) =>
                  res.userset = Union(SegmentUsersets(def, " or "))
           /\ (form = "and" /\ Succeeded(res)) =>
                  res.userset = Intersection(SegmentUsersets(def, " and "))
           /\ (form = "but not" /\ Succeeded(res)) =>
                  /\ Len(Split(def, " but not ")) = 2
                  /\ res.userset = Difference(SegmentUsersets(def, " but not ")[1],
                                              SegmentUsersets(def, " but not ")[2])
           /\ (form = "direct" /\ Succeeded(res)) => res.userset = This
           /\ (form = "from" /\ Succeeded(res)) =>
                  /\ res.userset.k = "tupleToUserset"
                  /\ res.userset.tupleset = TrimSpace(Split(def, " from ")[2])
                  /\ res.userset.computedUserset = TrimSpace(Split(def, " from ")[1])
           /\ (form = "arrow" /\ Succeeded(res)) =>
                  /\ res.userset.k = "tupleToUserset"
                  /\ res.userset.tupleset = TrimSpace(Split(def, "->")[1])
                  /\ res.userset.computedUserset = TrimSpace(Split(def, "->")[2])
           /\ form = "computed" => res = ParseOk(Computed(def))
           /\ form = "none" =>
                  /\ Failed(res)
                  /\ res.err = "unable to parse relation definition: " \o def
           /\ def = "owner or editor" =>
                  res = ParseOk(Union(<<Computed("owner"), Computed("editor")>>))

\* a definition holding both ' and ' and ' or ' was parsed, as a Union whose
\* first child is an Intersection
C11_Witness ==
    /\ Returned
    /\ Contains(parseDef, " or ")
    /\ Contains(parseDef, " and ")
    /\ Succeeded(parseRes)
    /\ parseRes.userset.k = "union"
    /\ parseRes.userset.child[1].k = "intersection"

Identifiers == {"owner", "parent", "editor"}

Detected == mpc = "built" /\ pc \in {"detected", "enhanced"}

UpdatesOf(typeName, relationName) ==
    {i \in DOMAIN changes : /\ changes[i].Type = ChangeTypeUpdateRelation
                            /\ changes[i].TypeName = typeName
                            /\ changes[i].RelationName = relationName}

\* C12: for identifiers X and Y, 'X from Y' and 'Y->X' both parse to
\* TupleToUserset{tupleset: Y, computedUserset: X}; the two Usersets serialize
\* to the same text, and DetectChanges reports no UpdateRelation for a
\* relation rewritten from one syntax to the other.
C12_FromAndArrowAgree ==
    /\ Returned =>
           LET fromParts == Split(parseDef, " from ")
               arrowParts == Split(parseDef, "->")
           IN /\ (/\ Len(fromParts) = 2
                  /\ IsIdentifier(fromParts[1])
                  /\ IsIdentifier(fromParts[2])) =>
                     LET other == parseRelationDefinition(fromParts[2] \o "->" \o fromParts[1]) IN
                     /\ parseRes = ParseOk(TupleToUserset(fromParts[2], fromParts[1]))
                     /\ other = parseRes
                     /\ serializeUserset(other.userset) = serializeUserset(parseRes.userset)
              /\ (/\ Len(arrowParts) = 2
                  /\ IsIdentifier(arrowParts[1])
                  /\ IsIdentifier(arrowParts[2])) =>
                     LET other == parseRelationDefinition(arrowParts[2] \o " from " \o arrowParts[1]) IN
                     /\ parseRes = ParseOk(TupleToUserset(arrowParts[1], arrowParts[2]))
                     /\ other = parseRes
                     /\ serializeUserset(other.userset) = serializeUserset(parseRes.userset)
    /\ Detected =>
           \A X \in Identifiers, Y \in Identifiers :
               {oldDsl, newDsl} = {ModelFile(X \o " from " \o Y), ModelFile(Y \o "->" \o X)} =>
                   UpdatesOf("document", "can_write") = {}

\* can_write was rewritten from 'owner from parent' to 'parent->owner' and
\* DetectChanges has compared the two models
C12_Witness ==
    /\ Detected
    /\ oldDsl = ModelFile("owner from parent")
    /\ newDsl = ModelFile("parent->owner")
    /\ oldState.Types # <<>>
    /\ changes = <<>>

\* the Difference nodes of a Userset
RECURSIVE Differences(_)
Differences(u) ==
    CASE u.k = "difference" -> {u} \cup Differences(u.base) \cup Differences(u.subtract)
      [] u.k \in {"union", "intersection"} ->
            UNION {Differences(u.child[i]) : i \in DOMAIN u.child}
      [] OTHER -> {}

\* a definition that is not split on ' or ', ' and ' or ' but not '
IsOperand(def) == FirstForm(def) \notin {"or", "and", "but not"}

\* C13: a definition (or a segment of a union or intersection) holding
\* ' but not ' more than once fails with "invalid 'but not' syntax", and one
\* holding '->' more than once fails with 'invalid tuple-to-userset format';
\* neither yields a Userset, and every Difference in a parse result has
\* exactly a base and a subtract child.
C13_BinaryFormsTakeTwoOperands ==
    Returned =>
        /\ (FirstForm(parseDef) = "but not" /\ Len(Split(parseDef, " but not ")) > 2) =>
               /\ Failed(parseRes)
               /\ parseRes.err = "invalid 'but not' syntax: " \o parseDef
        /\ \A sep \in {" or ", " and "} :
               (/\ FirstForm(parseDef) = TrimSpace(sep)
                /\ \E i \in DOMAIN Split(parseDef, sep) :
                       LET seg == TrimSpace(Split(parseDef, sep)[i]) IN
                       \/ FirstForm(seg) = "but not" /\ Len(Split(seg, " but not ")) > 2
                       \/ IsOperand(seg) /\ Len(Split(seg, "->")) > 2) =>
                   Failed(parseRes)
        /\ (IsOperand(parseDef) /\ Len(Split(parseDef, "->")) > 2) =>
               /\ Failed(parseRes)
               /\ parseRes.err = "invalid tuple-to-userset format: " \o parseDef
        /\ \A u \in Differences(parseRes.userset) :
               /\ DOMAIN u = {"k", "base", "subtract"}
               /\ u.base # NoUserset
               /\ u.subtract # NoUserset

HasParenthesis(def) == Contains(def, "(") \/ Contains(def, ")")

Parsed == mpc \in {"failed", "parsed", "built"}

\* the relation names a parsed model defines
RelationsOfModel(model) ==
    UNION {DOMAIN model.TypeDefinitions[i].Relations : i \in DOMAIN model.TypeDefinitions}

\* C14: a relation definition holding '(' or ')' fails to parse, whichever
\* other tokens it holds: parseRelationDefinition returns an error and no
\* Userset, ParseDSLToModel returns an error and the model has no relation
\* made from that definition.
C14_ParenthesesRejected ==
    /\ (Returned /\ HasParenthesis(parseDef)) => Failed(parseRes)
    /\ Parsed =>
           \A def \in FileDefs :
               HasParenthesis(def) =>
                   /\ oldDsl = ModelFile(def) =>
                          oldModel.err # "" /\ "can_write" \notin RelationsOfModel(oldModel)
                   /\ newDsl = ModelFile(def) =>
                          newModel.err # "" /\ "can_write" \notin RelationsOfModel(newModel)

\* some line of the file is exactly 'relations' and no type line precedes it
RelationsOutsideType(dsl) ==
    LET lines == Split(dsl, "\n") IN
    \E i \in DOMAIN lines :
        /\ TrimSpace(lines[i]) = "relations"
        /\ \A j \in 1..(i - 1) : ~HasPrefix(TrimSpace(lines[j]), "type ")

\* C15: a file with a line that is exactly 'relations' while no type is open
\* fails to parse with 'relation defined outside of type', whether or not a
\* 'define' line follows.
C15_RelationsNeedsOpenType ==
    Parsed =>
        /\ RelationsOutsideType(oldDsl) =>
               HasPrefix(oldModel.err, "relation defined outside of type")
        /\ RelationsOutsideType(newDsl) =>
               HasPrefix(newModel.err, "relation defined outside of type")

\* the references written between the first '[' and the ']' after it, in
\* source order
BracketedReferences(def) ==
    LET start == Index(def, "[")
        rest == SubSeq(def, start + 1, Len(def))
        inside == SubSeq(rest, 1, Index(rest, "]") - 1)
        items == Split(inside, ",")
        Ref(item) ==
            LET t == TrimSpace(item) IN
            IF Contains(t, "#")
            THEN RelationReference(Split(t, "#")[1], Split(t, "#")[2])
            ELSE RelationReference(t, "")
    IN [i \in DOMAIN items |-> Ref(items[i])]

\* the type-restriction metadata of the relations of a type of a parsed model
MetadataOf(model, typeName) ==
    LET i == CHOOSE i \in DOMAIN model.TypeDefinitions :
                model.TypeDefinitions[i].Type = typeName
    IN model.TypeDefinitions[i].Metadata

\* the metadata of document.can_write is as the definition's brackets say
RestrictionsAsWritten(def, model) ==
    LET metadata == MetadataOf(model, "document") IN
    IF Contains(def, "[")
    THEN /\ "can_write" \in DOMAIN metadata
         /\ metadata["can_write"] = BracketedReferences(def)
    ELSE "can_write" \notin DOMAIN metadata

\* C16: the DirectlyRelatedUserTypes stored for a relation whose definition
\* holds a bracketed list are exactly the references written inside the
\* brackets, in source order, also when the list is combined with other forms
\* ('[user] or owner', '[user] or parent->owner', '[user] or admin from
\* team'); a definition without brackets gets no such metadata.
C16_RestrictionsAreTheBracketedList ==
    Parsed =>
        \A def \in FileDefs :
            /\ (oldDsl = ModelFile(def) /\ oldModel.err = "") =>
                   RestrictionsAsWritten(def, oldModel)
            /\ (newDsl = ModelFile(def) /\ newModel.err = "") =>
                   RestrictionsAsWritten(def, newModel)

-----------------------------------------------------------------------------
(* Iteration order of the Go maps                                          *)

\* the change sets DetectPotentialRenames(DetectChanges(old, new), old, new)
\* can return, one per iteration order of the maps
EnhancedChangeSets(old, new) ==
    UNION {{Range(DetectPotentialRenames(detected, old, new, groupOrder)) :
                groupOrder \in Perms(RelationGroupKeys(detected))} :
           detected \in DetectChanges(old, new)}

\* C17: the diff and the generator are functions of their inputs: for a pair
\* of ModelStates the set of changes coming out of DetectPotentialRenames
\* after DetectChanges, and for a change list the text of the up and down
\* functions, do not depend on the iteration order of the maps.
C17_DiffAndGenerateAreFunctions ==
    /\ pc = "enhanced" =>
           EnhancedChangeSets(oldState, newState) = {Range(enhanced)}
    /\ gpc = "written" =>
           \A code \in generateMigrationCode(genChanges) :
               code.up = upCode /\ code.down = downCode

-----------------------------------------------------------------------------
(* Monotonicity of the confidence tier                                     *)

NameScores == {Score(k, ScoreSteps, e) : k \in 0..ScoreSteps, e \in {-1, 0, 1}}

-----------------------------------------------------------------------------
(* Changes of the bracketed type list                                      *)

\* the definition with the text between its first '[' and the ']' after it
\* taken out
OutsideBrackets(def) ==
    LET start == Index(def, "[")
        rest == SubSeq(def, start + 1, Len(def))
    IN SubSeq(def, 1, start) \o SubSeq(rest, Index(rest, "]"), Len(rest))

\* two definitions that differ in the bracketed type list and nowhere else
DifferInTypeListOnly(def1, def2) ==
    /\ def1 # def2
    /\ Contains(def1, "[") /\ Contains(def1, "]")
    /\ Contains(def2, "[") /\ Contains(def2, "]")
    /\ OutsideBrackets(def1) = OutsideBrackets(def2)

\* C19: when the definition of a relation changes in its bracketed type list
\* only ('[user] or owner' becoming '[user, group#member] or owner'),
\* DetectChanges over the ModelStates of the two parsed models returns an
\* UpdateRelation change for that relation.
C19_TypeListChangeDetected ==
    Detected =>
        \A def1 \in FileDefs, def2 \in FileDefs :
            (/\ DifferInTypeListOnly(def1, def2)
             /\ oldDsl = ModelFile(def1)
             /\ newDsl = ModelFile(def2)) =>
                UpdatesOf("document", "can_write") # {}

-----------------------------------------------------------------------------
(* The ledger of applied migrations                                        *)

\* C20: the ledger is a set of versions: after any sequence of successful
\* Record and Remove calls with non-empty versions, the keys of the map
\* GetApplied returns are the versions recorded and not removed since; Record
\* adds only its version and Remove removes only its version.
C20_LedgerIsSetOfVersions ==
    lastCall.op = "GetApplied" =>
        /\ applied.err = ""
        /\ applied.versions = recorded \ {""}

\* C21: an error of the client while GetApplied reads the ledger is returned
\* to the caller: a GetApplied whose tuple read failed returns that error,
\* never a successful empty map.
C21_ReadErrorPropagated ==
    (lastCall.op = "GetApplied" /\ lastCall.clientErr # "") =>
        /\ lastCall.err = lastCall.clientErr
        /\ applied.err = lastCall.clientErr

-----------------------------------------------------------------------------
(* The generator on an empty change list                                   *)

\* C25: GenerateMigrationFromChanges with an empty change list returns the
\* error 'no changes detected' and has no effect: no migrations directory is
\* created and no file is written.
C25_NoChangesNoEffect ==
    (gpc # "called" /\ genChanges = <<>>) =>
        /\ gpc = "failed"
        /\ genErr = "no changes detected"
        /\ dirExists = FALSE
        /\ upCode = NoCode
        /\ downCode = NoCode

\* the generator has returned from a call with an empty change list
C25_Witness ==
    /\ genChanges = <<>>
    /\ gpc = "failed"
    /\ genErr = "no changes detected"

-----------------------------------------------------------------------------
(* Properties of `omg up`                                                  *)

\* the migration files whose version was not in the ledger when the run
\* started, in the order of the run
PendingFiles ==
    SelectSeq(upFiles, LAMBDA file : extractVersionFromFilename(file) \notin upLedger0)

InRun == upPc \in {"loop", "returned"}

\* C22: runUp executes, in ascending version order, exactly the migration
\* files whose version is not in the ledger; it records a version only after
\* the up run of that migration succeeded and stops at the first failing
\* migration, which stays unrecorded like every later one; after a run that
\* returns no error the version of every migration file is in the ledger, and
\* a run that immediately follows it executes nothing.
C22_UpAppliesPending ==
    InRun =>
        /\ Len(upRan) <= Len(PendingFiles)
        /\ \A i \in DOMAIN upRan :
               upRan[i].version = extractVersionFromFilename(PendingFiles[i])
        /\ \A i \in DOMAIN upRan, j \in DOMAIN upRan :
               i < j => ~StrGreater(upRan[i].version, upRan[j].version)
        /\ \A i \in DOMAIN upRan : ~upRan[i].ok => (i = Len(upRan) /\ upPc = "returned")
        /\ LedgerVersions(store) \ upLedger0
               \subseteq {upRan[i].version : i \in {k \in DOMAIN upRan : upRan[k].ok}}
        /\ (upPc = "returned" /\ upErr = "") =>
               /\ Len(upRan) = Len(PendingFiles)
               /\ \A i \in DOMAIN upFiles :
                      extractVersionFromFilename(upFiles[i]) \in LedgerVersions(store)
        /\ (upPc = "returned" /\ upPrevClean) => upRan = <<>>

-----------------------------------------------------------------------------
(* Claims about the tuple migration helpers                                *)

\* the tuples the running helper read when it was called
HelperOld == ReadAllTuples(hStore0, hCall.objectType, ReadRelation(hCall))

\* the tuple the running helper makes of one tuple it read
HelperMoved(tuple) == NewTuples(hCall, <<tuple>>)[1]

HelperNew == {HelperMoved(tuple) : tuple \in HelperOld}

HelperSucceeded(ops) == hPc = "returned" /\ hErr = "" /\ hCall.op \in ops

C24_TransformReplaces ==
    /\ HelperSucceeded({"MigrateRelationWithTransform"}) =>
        /\ \A tuple \in HelperOld : HelperMoved(tuple) \in store
        /\ \A tuple \in HelperOld \ HelperNew : tuple \notin store
    /\ (hCall.op = "MigrateRelationWithTransform" /\ hErr = "transform failed") =>
        store = hStore0

\* C30: while RenameType runs and after it, the store is either the store of
\* the call or that store with all tuples of the old type moved, and after an
\* error it is the store of the call
C30_RenameTypeAtomic ==
    hCall.op = "RenameType" =>
        /\ store \in {hStore0, (hStore0 \ HelperOld) \cup HelperNew}
        /\ hErr # "" => store = hStore0

-----------------------------------------------------------------------------
(* Claims about the registry                                                *)

IsPermutationOf(a, b) ==
    /\ Len(a) = Len(b)
    /\ \E p \in Perms(DOMAIN a) : \A i \in DOMAIN a : a[i] = b[p[i]]

\* C26: GetAll returns the migrations registered since the last Reset, each
\* as often as it was registered, in ascending order of Version, in a slice
\* of its own: neither GetAll nor a write to the slice it returned changes
\* the registry
C26_GetAllSortedCopy ==
    /\ migrations = regSince
    /\ regOp = "GetAll" =>
        /\ IsPermutationOf(regSorted, regSince)
        /\ \A i \in 1..(Len(regSorted) - 1) :
            ~StrGreater(regSorted[i].Version, regSorted[i + 1].Version)
        /\ migrations = regBefore
        /\ ~regShares
    /\ regOp = "Modify" => migrations = regBefore

C26_Witness ==
    /\ regOp = "Modify"
    /\ Len(migrations) = 3
    /\ StrGreater(migrations[1].Version, migrations[3].Version)
    /\ \A i \in 1..2 : ~StrGreater(regSorted[i].Version, regSorted[i + 1].Version)
    /\ \E i \in DOMAIN regSorted : regSorted[i].Name = "modified"

-----------------------------------------------------------------------------
(* Claims about the dependency graph of sortRelationChanges                 *)

\* X and Y of a definition 'X from Y' or 'Y->X'
TupleToUsersetNames(def) ==
    LET fromParts == Split(def, " from ")
        arrowParts == Split(def, "->")
    IN IF Contains(def, " from ") /\ Len(fromParts) = 2
       THEN [is |-> TRUE, X |-> TrimSpace(fromParts[1]), Y |-> TrimSpace(fromParts[2])]
       ELSE IF Contains(def, "->") /\ Len(arrowParts) = 2
       THEN [is |-> TRUE, X |-> TrimSpace(arrowParts[2]), Y |-> TrimSpace(arrowParts[1])]
       ELSE [is |-> FALSE, X |-> "", Y |-> ""]

\* C27: for an AddRelation change defined as 'X from Y' or as 'Y->X' the
\* dependency graph has one edge, to the key Y.X, when a change with that key
\* is in the list, and no edge otherwise; in particular none to the X of the
\* defining type
C27_TupleToUsersetEdge ==
    srtPc = "returned" =>
        \A i \in DOMAIN srtChanges :
            LET names == TupleToUsersetNames(srtChanges[i].NewValue)
                key == ChangeKey(srtChanges[i])
            IN names.is =>
                \A k \in DOMAIN srtDeps :
                    srtDeps[key][k] = IF k = names.Y \o "." \o names.X THEN 1 ELSE 0

-----------------------------------------------------------------------------
(* Claims about the definitions embedded in generated calls                 *)

\* what the Go compiler makes of the string literal the generator wrote
UnescapeLiteral(s) == ReplaceAll(s, "\\\"", "\"")

\* the calls of the generated Up function that carry a relation definition
DefinitionCalls ==
    {item \in UNION {Range(upCode.blocks[b]) : b \in DOMAIN upCode.blocks} :
        /\ item.k = "call"
        /\ item.op \in {"omg.AddRelationToType", "omg.UpdateRelationDefinition"}}

\* C28: the definition embedded in a generated AddRelationToType or
\* UpdateRelationDefinition call is accepted by parseRelationDefinition and
\* parses to the expression the relation has in the new model
C28_EmbeddedDefinitionParses ==
    (pc = "confirmed" /\ gpc = "written") =>
        \A item \in DefinitionCalls :
            LET res == parseRelationDefinition(UnescapeLiteral(item.args[3])) IN
            /\ res.err = ""
            /\ serializeUserset(res.userset) =
                    newState.Types[item.args[1]].Relations[item.args[2]]

-----------------------------------------------------------------------------
(* Claims about the model helpers                                           *)

\* the type definition named typeName of a list that has one
TypeNamed(typeDefinitions, typeName) ==
    typeDefinitions[TypeIndex(typeDefinitions, typeName)]

TypeNamesOf(typeDefinitions) == {typeDefinitions[i].Type : i \in DOMAIN typeDefinitions}

\* the directly related user types of a relation
RestrictionsOf(typeDef, relName) ==
    IF relName \in DOMAIN typeDef.Metadata THEN Range(typeDef.Metadata[relName]) ELSE {}

\* the relation is what the call is about
IsTarget(call, typeName, relName) ==
    /\ typeName = call.typeName
    /\ call.op \in {"AddTypeToModel", "RemoveTypeFromModel"} \/ relName = call.relationName

\* every relation of one list that the call is not about is in the other
\* list with the same expression and the same restrictions
SameOutsideTarget(call, from, to) ==
    \A typeName \in TypeNamesOf(from) :
        /\ (call.op \in {"AddTypeToModel", "RemoveTypeFromModel"} => typeName # call.typeName)
            => typeName \in TypeNamesOf(to)
        /\ \A relName \in DOMAIN TypeNamed(from, typeName).Relations :
            ~IsTarget(call, typeName, relName) =>
                /\ typeName \in TypeNamesOf(to)
                /\ relName \in DOMAIN TypeNamed(to, typeName).Relations
                /\ TypeNamed(to, typeName).Relations[relName]
                        = TypeNamed(from, typeName).Relations[relName]
                /\ RestrictionsOf(TypeNamed(to, typeName), relName)
                        = RestrictionsOf(TypeNamed(from, typeName), relName)

\* C29: when a model helper succeeds, every type and relation it is not
\* called for has in the model written the expression and the directly
\* related user types it had in the model read, and nothing else is added;
\* when it returns an error no model is written
C29_HelpersChangeOnlyTarget ==
    mdlPc = "returned" =>
        IF mdlErr = ""
        THEN /\ mdlWritten
             /\ SameOutsideTarget(mdlCall, mdlRead.TypeDefinitions, svcModel.TypeDefinitions)
             /\ SameOutsideTarget(mdlCall, svcModel.TypeDefinitions, mdlRead.TypeDefinitions)
        ELSE /\ ~mdlWritten
             /\ svcModel = mdlRead

====
